---- MODULE Spec2Model ----
(***************************************************************************)
(* rat-trig-rs: rational trigonometry (quadrance, spread, cross, quadrea)  *)
(* as generic formulas over a numeric type T, their fault-checked safe_*   *)
(* twins, and the fixed-type const specializations.                        *)
(*                                                                         *)
(* Every function of the crate is pure, so the state machine is: Init      *)
(* draws a numeric type and an argument list, and one action per function  *)
(* applies that function to the arguments and records what came back.      *)
(***************************************************************************)
EXTENDS Integers, Sequences, FiniteSets, TLC

VARIABLES
    T,      \* numeric type the generic formulas are instantiated at
    shape,  \* layout of the argument list
    args,   \* the arguments of the call
    call,   \* name of the function that has been applied ("none" before)
    ret,    \* what the call produced
    logger  \* the process-wide logger of the log crate: "none" or "installed"

vars == <<T, shape, args, call, ret, logger>>

(***************************************************************************)
(* Widths of the primitive integer types, and the bounds of the model.     *)
(***************************************************************************)
Bits32 == 32
Bits64 == 64
Bits128 == 128
MaxCoord == 2      \* coordinates of two vectors: -MaxCoord..MaxCoord and the extremes
MaxNum == 2        \* their rational coordinates: -MaxNum..MaxNum, whole and halved
MaxQ == 3          \* three quadrances: -MaxQ..MaxQ and the extremes
MaxTri == 1        \* coordinates of three points, of lines, of 3D points
MaxPit == 1        \* coordinates of a point and a triangle: 0..MaxPit + 1
Max3D == 1         \* coordinates of three points of space: 0..Max3D
MaxShared == 1     \* first coordinate of the vector two threads call with

(***************************************************************************)
(* Numeric capability: core::ops::{Add, Sub, Mul, Div}, num_traits::{Zero, *)
(* One}, PartialEq / PartialOrd, at the primitive integers, at f64 and at   *)
(* num_rational::Ratio.                                                    *)
(*                                                                         *)
(* A value is [n, d]: the integer n (d = 1) or the reduced fraction n/d    *)
(* (d > 0), for |n| < 2^30.  An integer of magnitude 2^30 or more is       *)
(* [neg, big, d = 1]: its sign and the limbs of its magnitude in base      *)
(* 2^15, least significant first.  Every integer has one representation.  *)
(* d = 0 marks a computation that panicked: the panic unwinds through      *)
(* every operation that consumes it.                                       *)
(* A value of f64 is [fl, neg, m, e]: fl is "fin" for the finite number    *)
(* (-1)^neg * m * 2^e, with m an odd integer below 2^53 (or m = 0, e = 0,  *)
(* the two zeros), "inf" for the two infinities and "nan" for NaN (one     *)
(* NaN: sign and payload are not kept).                                    *)
(* A type is [kind, bits, checks]: kind "int" (signed), "uint" (unsigned), *)
(* "float" or "ratio"; checks is the build's overflow-checks setting (on   *)
(* in debug builds: overflow panics; off in release builds: overflow       *)
(* wraps; f64 does not depend on it).                                      *)
(* The operations take the type with its arithmetic attached, Impl(Ty).    *)
(***************************************************************************)
PANIC == [n |-> 0, d |-> 0]

IsFloat(x) == "fl" \in DOMAIN x

Panicked(x) == ~IsFloat(x) /\ x.d = 0

Num(z) == [n |-> z, d |-> 1]

Abs(z) == IF z < 0 THEN -z ELSE z

RECURSIVE Gcd(_, _)
Gcd(a, b) == IF b = 0 THEN a ELSE Gcd(b, a % b)

\* Ratio::new: reduce to lowest terms with a positive denominator.
Ratio(n, d) ==
    LET g == Gcd(Abs(n), Abs(d))
        s == IF d < 0 THEN -1 ELSE 1
    IN [n |-> s * (n \div g), d |-> s * (d \div g)]

\* integer division truncates toward zero
TruncDiv(a, b) ==
    IF (a >= 0) = (b > 0) THEN Abs(a) \div Abs(b) ELSE -(Abs(a) \div Abs(b))

\* the base of the limbs, and the least magnitude that is kept in limbs
Base == 2 ^ 15

Direct == 2 ^ 30

IsBig(x) == "big" \in DOMAIN x

\* the limbs of 2^k
TwoTo(k) == [i \in 1..((k \div 15) + 1) |-> IF i <= k \div 15 THEN 0 ELSE 2 ^ (k % 15)]

\* the limbs of 2^k - 1
TwoToLessOne(k) ==
    [i \in 1..((k + 14) \div 15) |-> IF 15 * i <= k THEN Base - 1 ELSE 2 ^ (k % 15) - 1]

\* a < b for magnitudes of one length that agree above limb i
RECURSIVE MagLessAt(_, _, _)
MagLessAt(a, b, i) ==
    IF i = 0 THEN FALSE
    ELSE IF a[i] # b[i] THEN a[i] < b[i]
    ELSE MagLessAt(a, b, i - 1)

\* a < b for magnitudes
MagLess(a, b) ==
    IF Len(a) # Len(b) THEN Len(a) < Len(b) ELSE MagLessAt(a, b, Len(a))

\* the order of the integers: a < b
ZLess(a, b) ==
    IF ~IsBig(a) /\ ~IsBig(b) THEN a.n < b.n
    ELSE IF ~IsBig(b) THEN a.neg
    ELSE IF ~IsBig(a) THEN ~b.neg
    ELSE IF a.neg # b.neg THEN a.neg
    ELSE LET m == IF a.neg THEN <<b.big, a.big>> ELSE <<a.big, b.big>>
         IN MagLess(m[1], m[2])

\* the magnitude of an integer
ZAbs(a) == IF IsBig(a) THEN [a EXCEPT !.neg = FALSE] ELSE Num(Abs(a.n))

\* the values of f64: NaN, the infinities, the finite numbers
NAN == [fl |-> "nan", neg |-> FALSE, m |-> Num(0), e |-> 0]

Inf(neg) == [fl |-> "inf", neg |-> neg, m |-> Num(0), e |-> 0]

Fin(neg, m, e) == [fl |-> "fin", neg |-> neg, m |-> m, e |-> e]

\* 0.0 and -0.0
IsZeroF(x) == x.fl = "fin" /\ x.m = Num(0)

\* the f64 of the integer n times 2^k, for 0 < |n| < 2^30; 0.0 for n = 0
Flt(n, k) ==
    IF n = 0 THEN Fin(FALSE, Num(0), 0)
    ELSE LET t == CHOOSE t \in 0..30 : Abs(n) % (2 ^ t) = 0 /\ Abs(n) % (2 ^ (t + 1)) # 0
         IN Fin(n < 0, Num(Abs(n) \div (2 ^ t)), k + t)

\* f64::MAX
FMax == Fin(FALSE, [neg |-> FALSE, big |-> TwoToLessOne(53), d |-> 1], 971)

\* Neg::neg at f64
FNeg(x) == IF x.fl = "nan" THEN x ELSE [x EXCEPT !.neg = ~x.neg]

\* the limbs of a non-negative integer
Limbs(v) ==
    IF IsBig(v) THEN v.big
    ELSE IF v.n = 0 THEN <<>>
    ELSE IF v.n < Base THEN <<v.n>>
    ELSE <<v.n % Base, v.n \div Base>>

\* the number of bits of a magnitude
BitLen(m) ==
    IF m = <<>> THEN 0
    ELSE 15 * (Len(m) - 1)
         + (CHOOSE k \in 1..15 : 2 ^ (k - 1) <= m[Len(m)] /\ m[Len(m)] < 2 ^ k)

\* the magnitude m times 2^k
ShiftLeft(m, k) ==
    LET q == k \div 15
        r == k % 15
        at(i) == IF 1 <= i /\ i <= Len(m) THEN m[i] ELSE 0
    IN [i \in 1..((BitLen(m) + k + 14) \div 15) |->
           IF i <= q THEN 0
           ELSE ((at(i - q) * (2 ^ r)) % Base) + ((at(i - q - 1) * (2 ^ r)) \div Base)]

\* the magnitude m divided by 2^k, rounded down
ShiftRight(m, k) ==
    LET q == k \div 15
        r == k % 15
        at(i) == IF i <= Len(m) THEN m[i] ELSE 0
        bits == IF BitLen(m) > k THEN BitLen(m) - k ELSE 0
    IN [i \in 1..((bits + 14) \div 15) |->
           (at(i + q) \div (2 ^ r)) + (at(i + q + 1) % (2 ^ r)) * (2 ^ (15 - r))]

\* bit k of the magnitude m, counted from 0
BitAt(m, k) ==
    IF k \div 15 + 1 > Len(m) THEN 0 ELSE (m[k \div 15 + 1] \div (2 ^ (k % 15))) % 2

\* some bit of the magnitude m below bit k is set
AnyBelow(m, k) ==
    \/ \E j \in 1..(k \div 15) : j <= Len(m) /\ m[j] # 0
    \/ k \div 15 < Len(m) /\ m[k \div 15 + 1] % (2 ^ (k % 15)) # 0

\* the number of zero bits below the lowest set bit of the magnitude m # 0
TrailingZeros(m) ==
    LET j == CHOOSE j \in 1..Len(m) : m[j] # 0 /\ \A i \in 1..(j - 1) : m[i] = 0
        t == CHOOSE t \in 0..14 : m[j] % (2 ^ t) = 0 /\ m[j] % (2 ^ (t + 1)) # 0
    IN 15 * (j - 1) + t

\* |u| < |v| for finite non-zero u and v
FMagLess(u, v) ==
    LET tu == BitLen(Limbs(u.m)) + u.e
        tv == BitLen(Limbs(v.m)) + v.e
        e == IF u.e < v.e THEN u.e ELSE v.e
    IN IF tu # tv THEN tu < tv
       ELSE MagLess(ShiftLeft(Limbs(u.m), u.e - e), ShiftLeft(Limbs(v.m), v.e - e))

\* the order of f64 on values other than NaN: a < b
FLess(a, b) ==
    IF IsZeroF(a) /\ IsZeroF(b) THEN FALSE
    ELSE IF IsZeroF(a) THEN ~b.neg
    ELSE IF IsZeroF(b) THEN a.neg
    ELSE IF a.neg # b.neg THEN a.neg
    ELSE LET lo == IF a.neg THEN b ELSE a
             hi == IF a.neg THEN a ELSE b
         IN IF lo.fl = "inf" THEN FALSE
            ELSE IF hi.fl = "inf" THEN TRUE
            ELSE FMagLess(lo, hi)

\* iN::MIN / uN::MIN / f64::MIN and iN::MAX / uN::MAX / f64::MAX
MinVal(Ty) ==
    IF Ty.kind = "float" THEN FNeg(FMax)
    ELSE IF Ty.kind = "int" THEN [neg |-> TRUE, big |-> TwoTo(Ty.bits - 1), d |-> 1]
    ELSE Num(0)

MaxVal(Ty) ==
    IF Ty.kind = "float" THEN FMax
    ELSE [neg |-> FALSE,
          big |-> TwoToLessOne(IF Ty.kind = "int" THEN Ty.bits - 1 ELSE Ty.bits),
          d |-> 1]

\* z is a value of the type (Ratio is not bounded; a magnitude below 2^30 is
\* within every width of more than 31 bits)
InRange(Ty, z) ==
    IF Ty.kind = "ratio" THEN TRUE
    ELSE IF ~IsBig(z) /\ Ty.bits > 31 THEN Ty.kind = "int" \/ z.n >= 0
    ELSE ~ZLess(z, MinVal(Ty)) /\ ~ZLess(MaxVal(Ty), z)

\* Sums, differences, products and quotients of integers of any magnitude, and
\* of f64 with its rounding (to nearest, ties to even), as one recursive
\* operator: BigInt(op, x) is the operation op on the operands x.  A magnitude
\* is the sequence of its limbs, least significant first, without leading
\* zeros.
RECURSIVE BigInt(_, _)
BigInt(op, x) ==
    LET Mag(v) == IF IsBig(v) THEN v.big ELSE BigInt("limbs", Abs(v.n))
        IsNeg(v) == IF IsBig(v) THEN v.neg ELSE v.n < 0
        LimbAt(m, i) == IF i <= Len(m) THEN m[i] ELSE 0
    IN CASE op = "add" ->
              \* Add::add at the type Ty: a panic of an operand is the panic
              \* of the call
              LET Ty == x[1]
                  a == x[2]
                  b == x[3]
              IN IF Panicked(a) \/ Panicked(b) THEN PANIC
                 ELSE IF Ty.kind = "float" THEN BigInt("FAdd", <<a, b>>)
                 ELSE IF a.d = 1 /\ b.d = 1 THEN BigInt("Fit", <<Ty, "ZAdd", a, b>>)
                 ELSE Ratio(a.n * b.d + b.n * a.d, a.d * b.d)
         [] op = "sub" ->
              \* Sub::sub at the type Ty
              LET Ty == x[1]
                  a == x[2]
                  b == x[3]
              IN IF Panicked(a) \/ Panicked(b) THEN PANIC
                 ELSE IF Ty.kind = "float" THEN BigInt("FAdd", <<a, FNeg(b)>>)
                 ELSE IF a.d = 1 /\ b.d = 1 THEN BigInt("Fit", <<Ty, "ZSub", a, b>>)
                 ELSE Ratio(a.n * b.d - b.n * a.d, a.d * b.d)
         [] op = "mul" ->
              \* Mul::mul at the type Ty
              LET Ty == x[1]
                  a == x[2]
                  b == x[3]
              IN IF Panicked(a) \/ Panicked(b) THEN PANIC
                 ELSE IF Ty.kind = "float" THEN BigInt("FMul", <<a, b>>)
                 ELSE IF a.d = 1 /\ b.d = 1 THEN BigInt("Fit", <<Ty, "ZMul", a, b>>)
                 ELSE Ratio(a.n * b.n, a.d * b.d)
         [] op = "div" ->
              \* Div::div at the type Ty: division by zero panics in every
              \* build at the integers and at Ratio, and so does MIN / -1; at
              \* f64 it gives an infinity or NaN
              LET Ty == x[1]
                  a == x[2]
                  b == x[3]
              IN IF Panicked(a) \/ Panicked(b) THEN PANIC
                 ELSE IF Ty.kind = "float" THEN BigInt("FDiv", <<a, b>>)
                 ELSE IF b = Num(0) THEN PANIC
                 ELSE IF Ty.kind = "ratio" THEN Ratio(a.n * b.d, a.d * b.n)
                 ELSE IF Ty.kind = "int" /\ b = Num(-1) /\ a = MinVal(Ty) THEN PANIC
                 ELSE BigInt("ZQuot", <<a, b>>)
         [] op = "abs_diff" ->
              \* uN::abs_diff: never overflows
              LET a == x[1]
                  b == x[2]
              IN IF Panicked(a) \/ Panicked(b) THEN PANIC
                 ELSE ZAbs(BigInt("ZSub", <<a, b>>))
         [] op = "Fit" ->
              \* result at the type Ty of the integer operation f on a and b:
              \* the mathematical value if it is in range, else a panic with
              \* overflow checks and the wrapped value without
              LET Ty == x[1]
                  z == BigInt(x[2], <<x[3], x[4]>>)
              IN IF InRange(Ty, z) THEN z
                 ELSE IF Ty.checks THEN PANIC
                 ELSE BigInt("Wrap", <<Ty, z>>)
         [] op = "ZAdd" ->
              \* a + b
              LET a == x[1]
                  b == x[2]
              IN IF ~IsBig(a) /\ ~IsBig(b) THEN BigInt("norm", a.n + b.n)
                 ELSE IF IsNeg(a) = IsNeg(b)
                 THEN BigInt("make", <<IsNeg(a), BigInt("magadd", <<Mag(a), Mag(b), 1, 0>>)>>)
                 ELSE IF MagLess(Mag(a), Mag(b))
                 THEN BigInt("make", <<IsNeg(b), BigInt("magsub", <<Mag(b), Mag(a), 1, 0>>)>>)
                 ELSE BigInt("make", <<IsNeg(a), BigInt("magsub", <<Mag(a), Mag(b), 1, 0>>)>>)
         [] op = "ZSub" ->
              \* a - b
              LET a == x[1]
                  b == x[2]
              IN IF ~IsBig(a) /\ ~IsBig(b) THEN BigInt("norm", a.n - b.n)
                 ELSE BigInt("ZAdd", <<a, BigInt("make", <<~IsNeg(b), Mag(b)>>)>>)
         [] op = "ZMul" ->
              \* a * b
              LET a == x[1]
                  b == x[2]
              IN IF ~IsBig(a) /\ ~IsBig(b) /\ Abs(a.n) < Base /\ Abs(b.n) < Base
                 THEN Num(a.n * b.n)
                 ELSE BigInt("make", <<IsNeg(a) # IsNeg(b),
                                    BigInt("magmul", <<Mag(a), Mag(b), 1>>)>>)
         [] op = "norm" ->
              \* the value of a native integer
              IF -Direct < x /\ x < Direct THEN Num(x)
              ELSE BigInt("make", <<x < 0, BigInt("limbs", Abs(x))>>)
         [] op = "ZQuot" ->
              \* a / b for b # 0: integer division truncates toward zero
              LET a == x[1]
                  b == x[2]
              IN IF ~IsBig(a) /\ ~IsBig(b) THEN Num(TruncDiv(a.n, b.n))
                 ELSE BigInt("make", <<IsNeg(a) # IsNeg(b),
                                    BigInt("divmod", <<Mag(a), Mag(b)>>)[1]>>)
         [] op = "Wrap" ->
              \* two's-complement wrap-around of the mathematical result z at Ty
              LET Ty == x[1]
                  z == x[2]
                  q == Ty.bits \div 15
                  r == Ty.bits % 15
                  m == Mag(z)
                  len == IF Len(m) <= q THEN Len(m) ELSE q + 1
                  low == BigInt("strip", [i \in 1..len |->
                                          IF i <= q THEN m[i] ELSE m[i] % (2 ^ r)])
                  residue == IF IsNeg(z) /\ low # <<>>
                             THEN BigInt("strip", BigInt("magsub", <<TwoTo(Ty.bits), low, 1, 0>>))
                             ELSE low
              IN IF Ty.kind = "int" /\ ~MagLess(residue, TwoTo(Ty.bits - 1))
                 THEN BigInt("make", <<TRUE, BigInt("magsub", <<TwoTo(Ty.bits), residue, 1, 0>>)>>)
                 ELSE BigInt("make", <<FALSE, residue>>)
         [] op = "make" ->
              \* the value of a sign and limbs
              LET m == BigInt("strip", x[2])
                  z == IF Len(m) = 0 THEN 0
                       ELSE IF Len(m) = 1 THEN m[1]
                       ELSE m[1] + Base * m[2]
              IN IF Len(m) <= 2 THEN Num(IF x[1] THEN -z ELSE z)
                 ELSE [neg |-> x[1], big |-> m, d |-> 1]
         [] op = "strip" ->
              \* without leading zero limbs
              IF x = <<>> THEN x
              ELSE IF x[Len(x)] = 0 THEN BigInt("strip", SubSeq(x, 1, Len(x) - 1))
              ELSE x
         [] op = "limbs" ->
              \* the magnitude of a native natural number
              IF x = 0 THEN <<>>
              ELSE IF x < Base THEN <<x>>
              ELSE IF x < Direct THEN <<x % Base, x \div Base>>
              ELSE <<x % Base, (x \div Base) % Base, x \div Direct>>
         [] op = "magadd" ->
              \* a + b from limb i on with carry c
              LET a == x[1]
                  b == x[2]
                  i == x[3]
                  c == x[4]
                  s == LimbAt(a, i) + LimbAt(b, i) + c
              IN IF i > Len(a) /\ i > Len(b) THEN (IF c = 0 THEN <<>> ELSE <<c>>)
                 ELSE <<s % Base>> \o BigInt("magadd", <<a, b, i + 1, s \div Base>>)
         [] op = "magsub" ->
              \* a - b for a >= b from limb i on with borrow c
              LET a == x[1]
                  b == x[2]
                  i == x[3]
                  c == x[4]
                  s == a[i] - LimbAt(b, i) - c
              IN IF i > Len(a) THEN <<>>
                 ELSE IF s < 0 THEN <<s + Base>> \o BigInt("magsub", <<a, b, i + 1, 1>>)
                 ELSE <<s>> \o BigInt("magsub", <<a, b, i + 1, 0>>)
         [] op = "magscale" ->
              \* a times the limb m from limb i on with carry c
              LET a == x[1]
                  m == x[2]
                  i == x[3]
                  c == x[4]
                  s == a[i] * m + c
              IN IF i > Len(a) THEN (IF c = 0 THEN <<>> ELSE <<c>>)
                 ELSE <<s % Base>> \o BigInt("magscale", <<a, m, i + 1, s \div Base>>)
         [] op = "magmul" ->
              \* a times the limbs of b from limb j on
              LET a == x[1]
                  b == x[2]
                  j == x[3]
              IN IF j > Len(b) THEN <<>>
                 ELSE BigInt("strip",
                          BigInt("magadd", <<BigInt("magscale", <<a, b[j], 1, 0>>),
                                          <<0>> \o BigInt("magmul", <<a, b, j + 1>>), 1, 0>>))
         [] op = "shortdiv" ->
              \* quotient and remainder of a by the limb m, from limb i down with
              \* remainder r
              LET a == x[1]
                  m == x[2]
                  i == x[3]
                  cur == x[4] * Base + a[i]
                  rest == BigInt("shortdiv", <<a, m, i - 1, cur % m>>)
              IN IF i = 0 THEN <<<<>>, x[4]>>
                 ELSE <<Append(rest[1], cur \div m), rest[2]>>
         [] op = "divmod" ->
              \* quotient and remainder of a by b # 0: long division in the
              \* base of the limbs, the divisor shifted until its leading limb
              \* is at least half the base
              LET a == x[1]
                  b == x[2]
                  Short(short) == <<BigInt("strip", short[1]), BigInt("limbs", short[2])>>
                  Unshift(long, s) == <<BigInt("strip", long[1]), ShiftRight(long[2], s)>>
                  Long(an, s) ==
                      Unshift(BigInt("longdiv", <<an, ShiftLeft(b, s), Len(an), <<>>>>), s)
                  Shifted(s) == Long(ShiftLeft(a, s), s)
              IN IF MagLess(a, b) THEN <<<<>>, a>>
                 ELSE IF Len(b) = 1 THEN Short(BigInt("shortdiv", <<a, b[1], Len(a), 0>>))
                 ELSE Shifted(15 - BitLen(<<b[Len(b)]>>))
         [] op = "longdiv" ->
              \* quotient and remainder of a by b, from limb i down with
              \* remainder r < b: with the leading limb of b at least half the
              \* base, the quotient of the two leading limbs of the remainder
              \* by the leading limb of b is the next limb of the quotient or
              \* exceeds it by at most two
              LET a == x[1]
                  b == x[2]
                  i == x[3]
                  n == Len(b)
                  times(q) == BigInt("strip", BigInt("magscale", <<b, q, 1, 0>>))
                  Emit(q, rest) == <<Append(rest[1], q), rest[2]>>
                  Step(cur, q) ==
                      Emit(q, BigInt("longdiv",
                                     <<a, b, i - 1,
                                       BigInt("strip", BigInt("magsub", <<cur, times(q), 1, 0>>))>>))
                  Pick(cur, est) ==
                      Step(cur, IF est = 0 \/ ~MagLess(cur, times(est)) THEN est
                                ELSE IF est = 1 \/ ~MagLess(cur, times(est - 1)) THEN est - 1
                                ELSE est - 2)
                  Guess(cur, top) ==
                      Pick(cur, IF top \div b[n] > Base - 1 THEN Base - 1 ELSE top \div b[n])
                  Digit(cur) == Guess(cur, LimbAt(cur, n + 1) * Base + LimbAt(cur, n))
              IN IF i = 0 THEN <<<<>>, x[4]>>
                 ELSE Digit(BigInt("strip", <<a[i]>> \o x[4]))
         [] op = "FRound" ->
              \* the f64 nearest to (-1)^neg * m * 2^e, ties to the even
              \* significand: the finite values keep 53 bits and no bit below
              \* 2^-1074, and a magnitude of 2^1024 or more is an infinity
              LET neg == x[1]
                  m == x[2]
                  e == x[3]
                  \* the rounded significand r, with t zero bits at its end, at
                  \* the exponent es
                  Pack(r, es, t) == Fin(neg, BigInt("make", <<FALSE, ShiftRight(r, t)>>), es + t)
                  Rounded(r, es) ==
                      IF r = <<>> THEN Fin(neg, Num(0), 0)
                      ELSE IF BitLen(r) + es > 1024 THEN Inf(neg)
                      ELSE Pack(r, es, TrailingZeros(r))
                  \* s bits are dropped: up when the first of them is set and
                  \* either a later one is or the bit kept last is
                  Drop(s) ==
                      Rounded(IF /\ s > 0
                                 /\ BitAt(m, s - 1) = 1
                                 /\ (AnyBelow(m, s - 1) \/ BitAt(m, s) = 1)
                              THEN BigInt("magadd", <<ShiftRight(m, s), <<1>>, 1, 0>>)
                              ELSE ShiftRight(m, s),
                              e + s)
                  Excess(over, under) ==
                      Drop(IF over > under /\ over > 0 THEN over
                           ELSE IF under > 0 THEN under
                           ELSE 0)
              IN Excess(BitLen(m) - 53, -1074 - e)
         [] op = "FAdd" ->
              \* a + b at f64
              LET a == x[1]
                  b == x[2]
                  Sum(ma, mb, e) ==
                      IF a.neg = b.neg
                      THEN BigInt("FRound", <<a.neg, BigInt("magadd", <<ma, mb, 1, 0>>), e>>)
                      ELSE IF ma = mb THEN Fin(FALSE, Num(0), 0)
                      ELSE IF MagLess(ma, mb)
                      THEN BigInt("FRound",
                                  <<b.neg, BigInt("strip", BigInt("magsub", <<mb, ma, 1, 0>>)), e>>)
                      ELSE BigInt("FRound",
                                  <<a.neg, BigInt("strip", BigInt("magsub", <<ma, mb, 1, 0>>)), e>>)
                  Aligned(e) ==
                      Sum(ShiftLeft(Limbs(a.m), a.e - e), ShiftLeft(Limbs(b.m), b.e - e), e)
                  \* the positions ta, tb of the leading bits: an operand that
                  \* lies wholly below a quarter of the last place of the other
                  \* leaves the other as the nearest f64
                  Leading(ta, tb) ==
                      IF ta - tb > 64 THEN a
                      ELSE IF tb - ta > 64 THEN b
                      ELSE Aligned(IF a.e < b.e THEN a.e ELSE b.e)
              IN IF a.fl = "nan" \/ b.fl = "nan" THEN NAN
                 ELSE IF a.fl = "inf"
                 THEN (IF b.fl = "inf" /\ a.neg # b.neg THEN NAN ELSE a)
                 ELSE IF b.fl = "inf" THEN b
                 ELSE IF IsZeroF(a) /\ IsZeroF(b) THEN Fin(a.neg /\ b.neg, Num(0), 0)
                 ELSE IF IsZeroF(a) THEN b
                 ELSE IF IsZeroF(b) THEN a
                 ELSE Leading(BitLen(Limbs(a.m)) + a.e, BitLen(Limbs(b.m)) + b.e)
         [] op = "FMul" ->
              \* a * b at f64
              LET a == x[1]
                  b == x[2]
              IN IF a.fl = "nan" \/ b.fl = "nan" THEN NAN
                 ELSE IF a.fl = "inf" \/ b.fl = "inf"
                 THEN (IF IsZeroF(a) \/ IsZeroF(b) THEN NAN ELSE Inf(a.neg # b.neg))
                 ELSE IF IsZeroF(a) \/ IsZeroF(b) THEN Fin(a.neg # b.neg, Num(0), 0)
                 ELSE BigInt("FRound",
                             <<a.neg # b.neg,
                               BigInt("strip", BigInt("magmul", <<Limbs(a.m), Limbs(b.m), 1>>)),
                               a.e + b.e>>)
         [] op = "FDiv" ->
              \* a / b at f64: the quotient of the significands to 55 bits or
              \* more, with one more bit that says whether a remainder is left
              LET a == x[1]
                  b == x[2]
                  Sticky(qr, k) ==
                      BigInt("FRound",
                             <<a.neg # b.neg,
                               BigInt("magadd", <<ShiftLeft(qr[1], 1),
                                                  IF qr[2] = <<>> THEN <<>> ELSE <<1>>, 1, 0>>),
                               a.e - b.e - k - 1>>)
                  Scaled(k) ==
                      Sticky(BigInt("divmod", <<ShiftLeft(Limbs(a.m), k), Limbs(b.m)>>), k)
                  Gap(gap) == Scaled(IF gap > 0 THEN gap ELSE 0)
              IN IF a.fl = "nan" \/ b.fl = "nan" THEN NAN
                 ELSE IF a.fl = "inf"
                 THEN (IF b.fl = "inf" THEN NAN ELSE Inf(a.neg # b.neg))
                 ELSE IF b.fl = "inf" THEN Fin(a.neg # b.neg, Num(0), 0)
                 ELSE IF IsZeroF(b)
                 THEN (IF IsZeroF(a) THEN NAN ELSE Inf(a.neg # b.neg))
                 ELSE IF IsZeroF(a) THEN Fin(a.neg # b.neg, Num(0), 0)
                 ELSE Gap(55 + BitLen(Limbs(b.m)) - BitLen(Limbs(a.m)))

\* the integers: sum, difference, product, truncated quotient
ZAdd(a, b) == BigInt("ZAdd", <<a, b>>)

ZSub(a, b) == BigInt("ZSub", <<a, b>>)

ZMul(a, b) == BigInt("ZMul", <<a, b>>)

ZQuot(a, b) == BigInt("ZQuot", <<a, b>>)

\* two's-complement wrap-around of the mathematical result z
Wrap(Ty, z) == BigInt("Wrap", <<Ty, z>>)

\* A type carries its arithmetic, as the primitive integers carry their impls
\* of Add, Sub, Mul and Div: Impl(Ty) is the type Ty with the arithmetic of
\* the integers as the function arith, and the operations below are applied at
\* a type that carries it.
Impl(Ty) ==
    [kind |-> Ty.kind, bits |-> Ty.bits, checks |-> Ty.checks,
     arith |-> [q \in Any |-> BigInt(q[1], q[2])]]

zero(Ty) == IF Ty.kind = "float" THEN Fin(FALSE, Num(0), 0) ELSE Num(0)

one(Ty) == IF Ty.kind = "float" THEN Fin(FALSE, Num(1), 0) ELSE Num(1)

\* Add, Sub, Mul, Div at a type that carries its arithmetic
add(Ty, a, b) == Ty.arith[<<"add", <<Ty, a, b>>>>]

sub(Ty, a, b) == Ty.arith[<<"sub", <<Ty, a, b>>>>]

mul(Ty, a, b) == Ty.arith[<<"mul", <<Ty, a, b>>>>]

div(Ty, a, b) == Ty.arith[<<"div", <<Ty, a, b>>>>]

\* uN::abs_diff
abs_diff(Ty, a, b) == Ty.arith[<<"abs_diff", <<a, b>>>>]

\* PartialEq: a == b.  NaN is equal to nothing, and 0.0 is equal to -0.0.
eq(a, b) ==
    IF IsFloat(a)
    THEN a.fl # "nan" /\ b.fl # "nan" /\ (a = b \/ (IsZeroF(a) /\ IsZeroF(b)))
    ELSE a = b

\* PartialOrd: a >= b.  Every comparison with NaN is false.
ge(a, b) ==
    IF IsFloat(a) THEN a.fl # "nan" /\ b.fl # "nan" /\ ~FLess(a, b)
    ELSE IF a.d = 1 /\ b.d = 1 THEN ~ZLess(a, b)
    ELSE a.n * b.d >= b.n * a.d

\* PartialOrd: a <= b
le(a, b) ==
    IF IsFloat(a) THEN a.fl # "nan" /\ b.fl # "nan" /\ ~FLess(b, a)
    ELSE IF a.d = 1 /\ b.d = 1 THEN ~ZLess(b, a)
    ELSE a.n * b.d <= b.n * a.d

\* PartialOrd: a < b
lt(a, b) ==
    IF IsFloat(a) THEN a.fl # "nan" /\ b.fl # "nan" /\ FLess(a, b)
    ELSE IF a.d = 1 /\ b.d = 1 THEN ZLess(a, b)
    ELSE a.n * b.d < b.n * a.d

\* PartialOrd: a > b
gt(a, b) ==
    IF IsFloat(a) THEN a.fl # "nan" /\ b.fl # "nan" /\ FLess(b, a)
    ELSE IF a.d = 1 /\ b.d = 1 THEN ZLess(b, a)
    ELSE a.n * b.d > b.n * a.d

\* a bool that a call returned
Bool(b) == [bool |-> b]

(***************************************************************************)
(* Result<T, MathError> (error.rs), and a call that unwound by panic.      *)
(***************************************************************************)
DivisionByZero == "DivisionByZero"

Ok(x) == IF Panicked(x) THEN [tag |-> "Panic", val |-> PANIC, err |-> "None"]
         ELSE [tag |-> "Ok", val |-> x, err |-> "None"]

Err(e) == [tag |-> "Err", val |-> PANIC, err |-> e]

Unwound == [tag |-> "Panic", val |-> PANIC, err |-> "None"]

(***************************************************************************)
(* trigonom.rs: the generic formulas.  Points, vectors and lines are       *)
(* tuples of values; Ty is the type parameter T, with its arithmetic.      *)
(***************************************************************************)
archimedes(Ty, q_1, q_2, q_3) ==
    LET temp == sub(Ty, add(Ty, q_1, q_2), q_3)
        four == add(Ty, add(Ty, add(Ty, one(Ty), one(Ty)), one(Ty)), one(Ty))
    IN sub(Ty, mul(Ty, mul(Ty, four, q_1), q_2), mul(Ty, temp, temp))

\* slip: the x difference taken as a sum
quadrance_sum_slip(Ty, p_1, p_2) ==
    LET dx == add(Ty, p_1[1], p_2[1])
        dy == sub(Ty, p_1[2], p_2[2])
    IN add(Ty, mul(Ty, dx, dx), mul(Ty, dy, dy))

quadrance(Ty, p_1, p_2) ==
    LET dx == sub(Ty, p_1[1], p_2[1])
        dy == sub(Ty, p_1[2], p_2[2])
    IN add(Ty, mul(Ty, dx, dx), mul(Ty, dy, dy))

spread(Ty, v_1, v_2) ==
    LET dot_product == add(Ty, mul(Ty, v_1[1], v_2[1]), mul(Ty, v_1[2], v_2[2]))
        q_1 == quadrance(Ty, v_1, <<zero(Ty), zero(Ty)>>)
        q_2 == quadrance(Ty, v_2, <<zero(Ty), zero(Ty)>>)
    IN sub(Ty, one(Ty),
           div(Ty, mul(Ty, dot_product, dot_product), mul(Ty, q_1, q_2)))

safe_spread(Ty, v_1, v_2) ==
    LET dot_product == add(Ty, mul(Ty, v_1[1], v_2[1]), mul(Ty, v_1[2], v_2[2]))
        q_1 == quadrance(Ty, v_1, <<zero(Ty), zero(Ty)>>)
        q_2 == quadrance(Ty, v_2, <<zero(Ty), zero(Ty)>>)
    IN IF Panicked(dot_product) \/ Panicked(q_1) \/ Panicked(q_2) THEN Unwound
       ELSE IF eq(q_1, zero(Ty)) \/ eq(q_2, zero(Ty)) THEN Err(DivisionByZero)
       ELSE Ok(sub(Ty, one(Ty),
                   div(Ty, mul(Ty, dot_product, dot_product), mul(Ty, q_1, q_2))))

\* slip: the second term multiplies by v_2.1 instead of v_2.0
cross_index_slip(Ty, v_1, v_2) ==
    sub(Ty, mul(Ty, v_1[1], v_2[2]), mul(Ty, v_1[2], v_2[2]))

cross(Ty, v_1, v_2) ==
    sub(Ty, mul(Ty, v_1[1], v_2[2]), mul(Ty, v_1[2], v_2[1]))

quadrance_from_line(Ty, p, l) ==
    LET temp == add(Ty, add(Ty, mul(Ty, l[1], p[1]), mul(Ty, l[2], p[2])), l[3])
    IN div(Ty, mul(Ty, temp, temp),
           quadrance(Ty, <<l[1], l[2]>>, <<zero(Ty), zero(Ty)>>))

safe_quadrance_from_line(Ty, p, l) ==
    LET temp == add(Ty, add(Ty, mul(Ty, l[1], p[1]), mul(Ty, l[2], p[2])), l[3])
        q == quadrance(Ty, <<l[1], l[2]>>, <<zero(Ty), zero(Ty)>>)
    IN IF Panicked(temp) \/ Panicked(q) THEN Unwound
       ELSE IF eq(q, zero(Ty)) THEN Err(DivisionByZero)
       ELSE Ok(div(Ty, mul(Ty, temp, temp), q))

\* slip: the constant term of l_2 taken for its second coefficient
spread_from_line_index_slip(Ty, l_1, l_2) ==
    LET temp == cross(Ty, <<l_1[1], l_1[2]>>, <<l_2[1], l_2[3]>>)
    IN div(Ty, mul(Ty, temp, temp),
           mul(Ty, quadrance(Ty, <<l_1[1], l_1[2]>>, <<zero(Ty), zero(Ty)>>),
                   quadrance(Ty, <<l_2[1], l_2[3]>>, <<zero(Ty), zero(Ty)>>)))

spread_from_line(Ty, l_1, l_2) ==
    LET temp == cross(Ty, <<l_1[1], l_1[2]>>, <<l_2[1], l_2[2]>>)
    IN div(Ty, mul(Ty, temp, temp),
           mul(Ty, quadrance(Ty, <<l_1[1], l_1[2]>>, <<zero(Ty), zero(Ty)>>),
                   quadrance(Ty, <<l_2[1], l_2[2]>>, <<zero(Ty), zero(Ty)>>)))

safe_spread_from_line(Ty, l_1, l_2) ==
    LET temp == cross(Ty, <<l_1[1], l_1[2]>>, <<l_2[1], l_2[2]>>)
        q_1 == quadrance(Ty, <<l_1[1], l_1[2]>>, <<zero(Ty), zero(Ty)>>)
        q_2 == quadrance(Ty, <<l_2[1], l_2[2]>>, <<zero(Ty), zero(Ty)>>)
    IN IF Panicked(temp) \/ Panicked(q_1) \/ Panicked(q_2) THEN Unwound
       ELSE IF eq(q_1, zero(Ty)) \/ eq(q_2, zero(Ty)) THEN Err(DivisionByZero)
       ELSE Ok(div(Ty, mul(Ty, temp, temp), mul(Ty, q_1, q_2)))

\* slip: the quadrances listed in the order of the sides p1p2, p1p3, p2p3
quadrance_from_three_points_order_slip(Ty, p_1, p_2, p_3) ==
    <<quadrance(Ty, p_1, p_2), quadrance(Ty, p_1, p_3), quadrance(Ty, p_2, p_3)>>

quadrance_from_three_points(Ty, p_1, p_2, p_3) ==
    <<quadrance(Ty, p_2, p_3), quadrance(Ty, p_1, p_3), quadrance(Ty, p_1, p_2)>>

\* slip: s_1 takes q_2 + q_3 + q_1 for q_2 + q_3 - q_1
spread_from_three_points_sign_slip(Ty, p_1, p_2, p_3) ==
    LET q_1 == quadrance(Ty, p_2, p_3)
        q_2 == quadrance(Ty, p_1, p_3)
        q_3 == quadrance(Ty, p_1, p_2)
        four == add(Ty, add(Ty, add(Ty, one(Ty), one(Ty)), one(Ty)), one(Ty))
        t_1 == add(Ty, add(Ty, q_2, q_3), q_1)
        t_2 == sub(Ty, add(Ty, q_1, q_3), q_2)
        t_3 == sub(Ty, add(Ty, q_1, q_2), q_3)
        s_1 == sub(Ty, one(Ty),
                   div(Ty, mul(Ty, t_1, t_1), mul(Ty, mul(Ty, four, q_2), q_3)))
        s_2 == sub(Ty, one(Ty),
                   div(Ty, mul(Ty, t_2, t_2), mul(Ty, mul(Ty, four, q_1), q_3)))
        s_3 == sub(Ty, one(Ty),
                   div(Ty, mul(Ty, t_3, t_3), mul(Ty, mul(Ty, four, q_1), q_2)))
    IN IF Panicked(s_1) \/ Panicked(s_2) \/ Panicked(s_3)
       THEN <<PANIC, PANIC, PANIC>>
       ELSE <<s_1, s_2, s_3>>

spread_from_three_points(Ty, p_1, p_2, p_3) ==
    LET q_1 == quadrance(Ty, p_2, p_3)
        q_2 == quadrance(Ty, p_1, p_3)
        q_3 == quadrance(Ty, p_1, p_2)
        four == add(Ty, add(Ty, add(Ty, one(Ty), one(Ty)), one(Ty)), one(Ty))
        t_1 == sub(Ty, add(Ty, q_2, q_3), q_1)
        t_2 == sub(Ty, add(Ty, q_1, q_3), q_2)
        t_3 == sub(Ty, add(Ty, q_1, q_2), q_3)
        s_1 == sub(Ty, one(Ty),
                   div(Ty, mul(Ty, t_1, t_1), mul(Ty, mul(Ty, four, q_2), q_3)))
        s_2 == sub(Ty, one(Ty),
                   div(Ty, mul(Ty, t_2, t_2), mul(Ty, mul(Ty, four, q_1), q_3)))
        s_3 == sub(Ty, one(Ty),
                   div(Ty, mul(Ty, t_3, t_3), mul(Ty, mul(Ty, four, q_1), q_2)))
    IN IF Panicked(s_1) \/ Panicked(s_2) \/ Panicked(s_3)
       THEN <<PANIC, PANIC, PANIC>>
       ELSE <<s_1, s_2, s_3>>

cross_from_three_points(Ty, p_1, p_2, p_3) ==
    cross(Ty, <<sub(Ty, p_2[1], p_1[1]), sub(Ty, p_2[2], p_1[2])>>,
              <<sub(Ty, p_3[1], p_1[1]), sub(Ty, p_3[2], p_1[2])>>)

quadrance3d(Ty, p_1, p_2) ==
    LET dx == sub(Ty, p_1[1], p_2[1])
        dy == sub(Ty, p_1[2], p_2[2])
        dz == sub(Ty, p_1[3], p_2[3])
    IN add(Ty, add(Ty, mul(Ty, dx, dx), mul(Ty, dy, dy)), mul(Ty, dz, dz))

\* slip: the first two points passed in the other order
twist_order_slip(Ty, p_1, p_2, p_3) == cross_from_three_points(Ty, p_2, p_1, p_3)

twist(Ty, p_1, p_2, p_3) == cross_from_three_points(Ty, p_1, p_2, p_3)

dilatation(Ty, v_1, v_2) ==
    LET q_1 == quadrance(Ty, v_1, <<zero(Ty), zero(Ty)>>)
        q_2 == quadrance(Ty, v_2, <<zero(Ty), zero(Ty)>>)
    IN IF Panicked(q_1) \/ Panicked(q_2) THEN PANIC
       ELSE IF eq(q_1, zero(Ty)) THEN zero(Ty)
       ELSE div(Ty, q_2, q_1)

safe_dilatation(Ty, v_1, v_2) ==
    LET q_1 == quadrance(Ty, v_1, <<zero(Ty), zero(Ty)>>)
        q_2 == quadrance(Ty, v_2, <<zero(Ty), zero(Ty)>>)
    IN IF Panicked(q_1) \/ Panicked(q_2) THEN Unwound
       ELSE IF eq(q_1, zero(Ty)) THEN Err(DivisionByZero)
       ELSE Ok(div(Ty, q_2, q_1))

sine_law_product(Ty, q, s) == mul(Ty, q, s)

\* slip: the divisor taken as four * q_2 * q_2
cosine_law_denominator_slip(Ty, q_1, q_2, q_3) ==
    LET four == add(Ty, add(Ty, add(Ty, one(Ty), one(Ty)), one(Ty)), one(Ty))
        t == sub(Ty, add(Ty, q_2, q_3), q_1)
    IN IF eq(q_2, zero(Ty)) \/ eq(q_3, zero(Ty)) THEN zero(Ty)
       ELSE sub(Ty, one(Ty),
                div(Ty, mul(Ty, t, t), mul(Ty, mul(Ty, four, q_2), q_2)))

cosine_law(Ty, q_1, q_2, q_3) ==
    LET four == add(Ty, add(Ty, add(Ty, one(Ty), one(Ty)), one(Ty)), one(Ty))
        t == sub(Ty, add(Ty, q_2, q_3), q_1)
    IN IF eq(q_2, zero(Ty)) \/ eq(q_3, zero(Ty)) THEN zero(Ty)
       ELSE sub(Ty, one(Ty),
                div(Ty, mul(Ty, t, t), mul(Ty, mul(Ty, four, q_2), q_3)))

safe_cosine_law(Ty, q_1, q_2, q_3) ==
    LET four == add(Ty, add(Ty, add(Ty, one(Ty), one(Ty)), one(Ty)), one(Ty))
        t == sub(Ty, add(Ty, q_2, q_3), q_1)
    IN IF eq(q_2, zero(Ty)) \/ eq(q_3, zero(Ty)) THEN Err(DivisionByZero)
       ELSE Ok(sub(Ty, one(Ty),
                   div(Ty, mul(Ty, t, t), mul(Ty, mul(Ty, four, q_2), q_3))))

\* slip: the sign taken as cross > 0
turn_strict_slip(Ty, p_1, p_2, p_3) ==
    LET v1 == <<sub(Ty, p_2[1], p_1[1]), sub(Ty, p_2[2], p_1[2])>>
        v2 == <<sub(Ty, p_3[1], p_2[1]), sub(Ty, p_3[2], p_2[2])>>
        s == spread(Ty, v1, v2)
        c == cross(Ty, v1, v2)
    IN IF Panicked(s) \/ Panicked(c) THEN <<PANIC, PANIC>>
       ELSE <<s, Bool(ge(c, zero(Ty)) /\ ~eq(c, zero(Ty)))>>

turn(Ty, p_1, p_2, p_3) ==
    LET v1 == <<sub(Ty, p_2[1], p_1[1]), sub(Ty, p_2[2], p_1[2])>>
        v2 == <<sub(Ty, p_3[1], p_2[1]), sub(Ty, p_3[2], p_2[2])>>
        s == spread(Ty, v1, v2)
        c == cross(Ty, v1, v2)
    IN IF Panicked(s) \/ Panicked(c) THEN <<PANIC, PANIC>>
       ELSE <<s, Bool(ge(c, zero(Ty)))>>

(***************************************************************************)
(* validation.rs: the predicates.  A predicate returns Bool(b), or PANIC   *)
(* when its arithmetic panicked.                                           *)
(***************************************************************************)
are_collinear(Ty, p_1, p_2, p_3) ==
    LET c == sub(Ty, mul(Ty, sub(Ty, p_2[1], p_1[1]), sub(Ty, p_3[2], p_1[2])),
                     mul(Ty, sub(Ty, p_2[2], p_1[2]), sub(Ty, p_3[1], p_1[1])))
    IN IF Panicked(c) THEN PANIC ELSE Bool(eq(c, zero(Ty)))

is_valid_triangle(Ty, p_1, p_2, p_3) ==
    LET collinear == are_collinear(Ty, p_1, p_2, p_3)
    IN IF collinear = PANIC THEN PANIC ELSE Bool(~collinear.bool)

satisfies_triangle_inequality(Ty, q_1, q_2, q_3) ==
    Bool(ge(q_1, zero(Ty)) /\ ge(q_2, zero(Ty)) /\ ge(q_3, zero(Ty)))

\* slip: the upper bound tested with < instead of <=
is_valid_spread_open_slip(Ty, s) ==
    Bool(ge(s, zero(Ty)) /\ le(s, one(Ty)) /\ ~eq(s, one(Ty)))

is_valid_spread(Ty, s) == Bool(ge(s, zero(Ty)) /\ le(s, one(Ty)))

is_right_triangle(Ty, s_1, s_2, s_3) ==
    Bool(eq(s_1, one(Ty)) \/ eq(s_2, one(Ty)) \/ eq(s_3, one(Ty)))

is_acute_triangle(Ty, s_1, s_2, s_3) ==
    Bool(lt(s_1, one(Ty)) /\ lt(s_2, one(Ty)) /\ lt(s_3, one(Ty)))

\* slip: the threshold tested with >= instead of >
is_obtuse_triangle_closed_slip(Ty, s_1, s_2, s_3) ==
    LET half == div(Ty, one(Ty), add(Ty, one(Ty), one(Ty)))
    IN IF Panicked(half) THEN PANIC
       ELSE Bool(ge(s_1, half) \/ ge(s_2, half) \/ ge(s_3, half))

is_obtuse_triangle(Ty, s_1, s_2, s_3) ==
    LET half == div(Ty, one(Ty), add(Ty, one(Ty), one(Ty)))
    IN IF Panicked(half) THEN PANIC
       ELSE Bool(gt(s_1, half) \/ gt(s_2, half) \/ gt(s_3, half))

are_lines_parallel(Ty, l_1, l_2) ==
    LET cross_ == sub(Ty, mul(Ty, l_1[1], l_2[2]), mul(Ty, l_1[2], l_2[1]))
    IN IF Panicked(cross_) THEN PANIC ELSE Bool(eq(cross_, zero(Ty)))

\* slip: the coefficients paired as in the cross product
are_lines_perpendicular_pairing_slip(Ty, l_1, l_2) ==
    LET dot == add(Ty, mul(Ty, l_1[1], l_2[2]), mul(Ty, l_1[2], l_2[1]))
    IN IF Panicked(dot) THEN PANIC ELSE Bool(eq(dot, zero(Ty)))

are_lines_perpendicular(Ty, l_1, l_2) ==
    LET dot == add(Ty, mul(Ty, l_1[1], l_2[1]), mul(Ty, l_1[2], l_2[2]))
    IN IF Panicked(dot) THEN PANIC ELSE Bool(eq(dot, zero(Ty)))

\* slip: the last barycentric coordinate tested with > instead of >=
point_in_triangle_open_slip(Ty, point, p_1, p_2, p_3) ==
    LET x == point[1]
        y == point[2]
        x1 == p_1[1]
        y1 == p_1[2]
        x2 == p_2[1]
        y2 == p_2[2]
        x3 == p_3[1]
        y3 == p_3[2]
        denominator == add(Ty, mul(Ty, sub(Ty, y2, y3), sub(Ty, x1, x3)),
                               mul(Ty, sub(Ty, x3, x2), sub(Ty, y1, y3)))
        a == div(Ty, add(Ty, mul(Ty, sub(Ty, y2, y3), sub(Ty, x, x3)),
                             mul(Ty, sub(Ty, x3, x2), sub(Ty, y, y3))),
                 denominator)
        b == div(Ty, add(Ty, mul(Ty, sub(Ty, y3, y1), sub(Ty, x, x3)),
                             mul(Ty, sub(Ty, x1, x3), sub(Ty, y, y3))),
                 denominator)
        c == sub(Ty, sub(Ty, one(Ty), a), b)
    IN IF Panicked(denominator) THEN PANIC
       ELSE IF eq(denominator, zero(Ty)) THEN Bool(FALSE)
       ELSE IF Panicked(a) \/ Panicked(b) \/ Panicked(c) THEN PANIC
       ELSE Bool(ge(a, zero(Ty)) /\ ge(b, zero(Ty)) /\ ge(c, zero(Ty)) /\ ~eq(c, zero(Ty)))

point_in_triangle(Ty, point, p_1, p_2, p_3) ==
    LET x == point[1]
        y == point[2]
        x1 == p_1[1]
        y1 == p_1[2]
        x2 == p_2[1]
        y2 == p_2[2]
        x3 == p_3[1]
        y3 == p_3[2]
        denominator == add(Ty, mul(Ty, sub(Ty, y2, y3), sub(Ty, x1, x3)),
                               mul(Ty, sub(Ty, x3, x2), sub(Ty, y1, y3)))
        a == div(Ty, add(Ty, mul(Ty, sub(Ty, y2, y3), sub(Ty, x, x3)),
                             mul(Ty, sub(Ty, x3, x2), sub(Ty, y, y3))),
                 denominator)
        b == div(Ty, add(Ty, mul(Ty, sub(Ty, y3, y1), sub(Ty, x, x3)),
                             mul(Ty, sub(Ty, x1, x3), sub(Ty, y, y3))),
                 denominator)
        c == sub(Ty, sub(Ty, one(Ty), a), b)
    IN IF Panicked(denominator) THEN PANIC
       ELSE IF eq(denominator, zero(Ty)) THEN Bool(FALSE)
       ELSE IF Panicked(a) \/ Panicked(b) \/ Panicked(c) THEN PANIC
       ELSE Bool(ge(a, zero(Ty)) /\ ge(b, zero(Ty)) /\ ge(c, zero(Ty)))

(***************************************************************************)
(* geometry.rs: the primitive types.  A point is [x, y] or [x, y, z], a    *)
(* triangle is [p1, p2, p3].                                               *)
(***************************************************************************)
Point2D_from(tuple) == [x |-> tuple[1], y |-> tuple[2]]

Point3D_from(tuple) == [x |-> tuple[1], y |-> tuple[2], z |-> tuple[3]]

Triangle2D_new(p1, p2, p3) == [p1 |-> p1, p2 |-> p2, p3 |-> p3]

Triangle2D_quadrances(Ty, self) ==
    LET q1 == add(Ty, mul(Ty, sub(Ty, self.p2.x, self.p3.x), sub(Ty, self.p2.x, self.p3.x)),
                      mul(Ty, sub(Ty, self.p2.y, self.p3.y), sub(Ty, self.p2.y, self.p3.y)))
        q2 == add(Ty, mul(Ty, sub(Ty, self.p1.x, self.p3.x), sub(Ty, self.p1.x, self.p3.x)),
                      mul(Ty, sub(Ty, self.p1.y, self.p3.y), sub(Ty, self.p1.y, self.p3.y)))
        q3 == add(Ty, mul(Ty, sub(Ty, self.p1.x, self.p2.x), sub(Ty, self.p1.x, self.p2.x)),
                      mul(Ty, sub(Ty, self.p1.y, self.p2.y), sub(Ty, self.p1.y, self.p2.y)))
    IN <<q1, q2, q3>>

\* slip: temp taken as q1 - q2 - q3
Triangle2D_area_sign_slip(Ty, self) ==
    LET q == Triangle2D_quadrances(Ty, self)
        temp == sub(Ty, sub(Ty, q[1], q[2]), q[3])
        four == add(Ty, add(Ty, add(Ty, one(Ty), one(Ty)), one(Ty)), one(Ty))
    IN sub(Ty, mul(Ty, mul(Ty, four, q[1]), q[2]), mul(Ty, temp, temp))

Triangle2D_area(Ty, self) ==
    LET q == Triangle2D_quadrances(Ty, self)
        temp == sub(Ty, add(Ty, q[1], q[2]), q[3])
        four == add(Ty, add(Ty, add(Ty, one(Ty), one(Ty)), one(Ty)), one(Ty))
    IN sub(Ty, mul(Ty, mul(Ty, four, q[1]), q[2]), mul(Ty, temp, temp))

\* slip: the second product takes p3.y instead of p3.x
Triangle2D_twist_coordinate_slip(Ty, self) ==
    sub(Ty, mul(Ty, sub(Ty, self.p2.x, self.p1.x), sub(Ty, self.p3.y, self.p1.y)),
            mul(Ty, sub(Ty, self.p2.y, self.p1.y), sub(Ty, self.p3.y, self.p1.x)))

Triangle2D_twist(Ty, self) ==
    sub(Ty, mul(Ty, sub(Ty, self.p2.x, self.p1.x), sub(Ty, self.p3.y, self.p1.y)),
            mul(Ty, sub(Ty, self.p2.y, self.p1.y), sub(Ty, self.p3.x, self.p1.x)))

Triangle2D_is_degenerate(Ty, self) ==
    LET t == Triangle2D_twist(Ty, self)
    IN IF Panicked(t) THEN PANIC ELSE Bool(eq(t, zero(Ty)))

Triangle3D_new(p1, p2, p3) == [p1 |-> p1, p2 |-> p2, p3 |-> p3]

Triangle3D_quadrances(Ty, self) ==
    LET q1 == add(Ty, add(Ty,
                  mul(Ty, sub(Ty, self.p2.x, self.p3.x), sub(Ty, self.p2.x, self.p3.x)),
                  mul(Ty, sub(Ty, self.p2.y, self.p3.y), sub(Ty, self.p2.y, self.p3.y))),
                  mul(Ty, sub(Ty, self.p2.z, self.p3.z), sub(Ty, self.p2.z, self.p3.z)))
        q2 == add(Ty, add(Ty,
                  mul(Ty, sub(Ty, self.p1.x, self.p3.x), sub(Ty, self.p1.x, self.p3.x)),
                  mul(Ty, sub(Ty, self.p1.y, self.p3.y), sub(Ty, self.p1.y, self.p3.y))),
                  mul(Ty, sub(Ty, self.p1.z, self.p3.z), sub(Ty, self.p1.z, self.p3.z)))
        q3 == add(Ty, add(Ty,
                  mul(Ty, sub(Ty, self.p1.x, self.p2.x), sub(Ty, self.p1.x, self.p2.x)),
                  mul(Ty, sub(Ty, self.p1.y, self.p2.y), sub(Ty, self.p1.y, self.p2.y))),
                  mul(Ty, sub(Ty, self.p1.z, self.p2.z), sub(Ty, self.p1.z, self.p2.z)))
    IN <<q1, q2, q3>>

(***************************************************************************)
(* const_trigonom.rs: the fixed-type specializations.  Each is its own     *)
(* body in the source, so each is its own definition here.  oc is the      *)
(* build's overflow-checks setting.                                        *)
(***************************************************************************)
I32(oc) == [kind |-> "int", bits |-> Bits32, checks |-> oc]

I64(oc) == [kind |-> "int", bits |-> Bits64, checks |-> oc]

I128(oc) == [kind |-> "int", bits |-> Bits128, checks |-> oc]

U32(oc) == [kind |-> "uint", bits |-> Bits32, checks |-> oc]

U64(oc) == [kind |-> "uint", bits |-> Bits64, checks |-> oc]

U128(oc) == [kind |-> "uint", bits |-> Bits128, checks |-> oc]

\* Ratio<_> is modelled as exact arithmetic
Rational(oc) == [kind |-> "ratio", bits |-> 0, checks |-> oc]

F64 == [kind |-> "float", bits |-> Bits64, checks |-> FALSE]

quadrance_i64(oc, p_1, p_2) ==
    LET at(Ty) ==
            LET dx == sub(Ty, p_1[1], p_2[1])
                dy == sub(Ty, p_1[2], p_2[2])
            IN add(Ty, mul(Ty, dx, dx), mul(Ty, dy, dy))
    IN at(Impl(I64(oc)))

\* slip: q_3 added instead of subtracted
archimedes_i64_sign_slip(oc, q_1, q_2, q_3) ==
    LET at(Ty) ==
            LET temp == add(Ty, add(Ty, q_1, q_2), q_3)
                four == Num(4)
            IN sub(Ty, mul(Ty, mul(Ty, four, q_1), q_2), mul(Ty, temp, temp))
    IN at(Impl(I64(oc)))

archimedes_i64(oc, q_1, q_2, q_3) ==
    LET at(Ty) ==
            LET temp == sub(Ty, add(Ty, q_1, q_2), q_3)
                four == Num(4)
            IN sub(Ty, mul(Ty, mul(Ty, four, q_1), q_2), mul(Ty, temp, temp))
    IN at(Impl(I64(oc)))

\* slip: the zero test on q_product left out
spread_i64_unguarded_slip(oc, v_1, v_2) ==
    LET at(Ty, q_1, q_2) ==
            LET dot_product == add(Ty, mul(Ty, v_1[1], v_2[1]), mul(Ty, v_1[2], v_2[2]))
                q_product == mul(Ty, q_1, q_2)
            IN sub(Ty, q_product, div(Ty, mul(Ty, dot_product, dot_product), q_product))
    IN at(Impl(I64(oc)),
          quadrance_i64(oc, v_1, <<Num(0), Num(0)>>),
          quadrance_i64(oc, v_2, <<Num(0), Num(0)>>))

spread_i64(oc, v_1, v_2) ==
    LET at(Ty, q_1, q_2) ==
            LET dot_product == add(Ty, mul(Ty, v_1[1], v_2[1]), mul(Ty, v_1[2], v_2[2]))
                q_product == mul(Ty, q_1, q_2)
            IN IF Panicked(dot_product) \/ Panicked(q_product) THEN PANIC
               ELSE IF q_product = Num(0) THEN Num(0)
               ELSE sub(Ty, q_product, div(Ty, mul(Ty, dot_product, dot_product), q_product))
    IN at(Impl(I64(oc)),
          quadrance_i64(oc, v_1, <<Num(0), Num(0)>>),
          quadrance_i64(oc, v_2, <<Num(0), Num(0)>>))

cross_i64(oc, v_1, v_2) ==
    LET at(Ty) == sub(Ty, mul(Ty, v_1[1], v_2[2]), mul(Ty, v_1[2], v_2[1]))
    IN at(Impl(I64(oc)))

quadrance_i32(oc, p_1, p_2) ==
    LET at(Ty) ==
            LET dx == sub(Ty, p_1[1], p_2[1])
                dy == sub(Ty, p_1[2], p_2[2])
            IN add(Ty, mul(Ty, dx, dx), mul(Ty, dy, dy))
    IN at(Impl(I32(oc)))

archimedes_i32(oc, q_1, q_2, q_3) ==
    LET at(Ty) ==
            LET temp == sub(Ty, add(Ty, q_1, q_2), q_3)
                four == Num(4)
            IN sub(Ty, mul(Ty, mul(Ty, four, q_1), q_2), mul(Ty, temp, temp))
    IN at(Impl(I32(oc)))

quadrance_f64(p_1, p_2) ==
    LET at(Ty) ==
            LET dx == sub(Ty, p_1[1], p_2[1])
                dy == sub(Ty, p_1[2], p_2[2])
            IN add(Ty, mul(Ty, dx, dx), mul(Ty, dy, dy))
    IN at(Impl(F64))

archimedes_f64(q_1, q_2, q_3) ==
    LET at(Ty) ==
            LET temp == sub(Ty, add(Ty, q_1, q_2), q_3)
                four == Flt(4, 0)
            IN sub(Ty, mul(Ty, mul(Ty, four, q_1), q_2), mul(Ty, temp, temp))
    IN at(Impl(F64))

spread_f64(v_1, v_2) ==
    LET at(Ty, q_1, q_2) ==
            LET dot_product == add(Ty, mul(Ty, v_1[1], v_2[1]), mul(Ty, v_1[2], v_2[2]))
                q_product == mul(Ty, q_1, q_2)
            IN IF eq(q_product, Flt(0, 0)) THEN Flt(0, 0)
               ELSE sub(Ty, Flt(1, 0), div(Ty, mul(Ty, dot_product, dot_product), q_product))
    IN at(Impl(F64),
          quadrance_f64(v_1, <<Flt(0, 0), Flt(0, 0)>>),
          quadrance_f64(v_2, <<Flt(0, 0), Flt(0, 0)>>))

cross_f64(v_1, v_2) ==
    LET at(Ty) == sub(Ty, mul(Ty, v_1[1], v_2[2]), mul(Ty, v_1[2], v_2[1]))
    IN at(Impl(F64))

\* slip: the subtraction done before the division
spread_i32_precedence_slip(oc, v_1, v_2) ==
    LET at(Ty, q_1, q_2) ==
            LET dot_product == add(Ty, mul(Ty, v_1[1], v_2[1]), mul(Ty, v_1[2], v_2[2]))
                q_product == mul(Ty, q_1, q_2)
            IN IF Panicked(dot_product) \/ Panicked(q_product) THEN PANIC
               ELSE IF q_product = Num(0) THEN Num(0)
               ELSE div(Ty, sub(Ty, q_product, mul(Ty, dot_product, dot_product)), q_product)
    IN at(Impl(I32(oc)),
          quadrance_i32(oc, v_1, <<Num(0), Num(0)>>),
          quadrance_i32(oc, v_2, <<Num(0), Num(0)>>))

spread_i32(oc, v_1, v_2) ==
    LET at(Ty, q_1, q_2) ==
            LET dot_product == add(Ty, mul(Ty, v_1[1], v_2[1]), mul(Ty, v_1[2], v_2[2]))
                q_product == mul(Ty, q_1, q_2)
            IN IF Panicked(dot_product) \/ Panicked(q_product) THEN PANIC
               ELSE IF q_product = Num(0) THEN Num(0)
               ELSE sub(Ty, q_product, div(Ty, mul(Ty, dot_product, dot_product), q_product))
    IN at(Impl(I32(oc)),
          quadrance_i32(oc, v_1, <<Num(0), Num(0)>>),
          quadrance_i32(oc, v_2, <<Num(0), Num(0)>>))

cross_i32(oc, v_1, v_2) ==
    LET at(Ty) == sub(Ty, mul(Ty, v_1[1], v_2[2]), mul(Ty, v_1[2], v_2[1]))
    IN at(Impl(I32(oc)))

\* slip: plain subtraction instead of abs_diff
quadrance_u32_plain_sub(oc, p_1, p_2) ==
    LET at(Ty) ==
            LET dx == sub(Ty, p_1[1], p_2[1])
                dy == sub(Ty, p_1[2], p_2[2])
            IN add(Ty, mul(Ty, dx, dx), mul(Ty, dy, dy))
    IN at(Impl(U32(oc)))

quadrance_u32(oc, p_1, p_2) ==
    LET at(Ty) ==
            LET dx == abs_diff(Ty, p_1[1], p_2[1])
                dy == abs_diff(Ty, p_1[2], p_2[2])
            IN add(Ty, mul(Ty, dx, dx), mul(Ty, dy, dy))
    IN at(Impl(U32(oc)))

archimedes_u32(oc, q_1, q_2, q_3) ==
    LET at(Ty) ==
            LET temp == sub(Ty, add(Ty, q_1, q_2), q_3)
                four == Num(4)
            IN sub(Ty, mul(Ty, mul(Ty, four, q_1), q_2), mul(Ty, temp, temp))
    IN at(Impl(U32(oc)))

spread_u32(oc, v_1, v_2) ==
    LET at(Ty, q_1, q_2) ==
            LET dot_product == add(Ty, mul(Ty, v_1[1], v_2[1]), mul(Ty, v_1[2], v_2[2]))
                q_product == mul(Ty, q_1, q_2)
            IN IF Panicked(dot_product) \/ Panicked(q_product) THEN PANIC
               ELSE IF q_product = Num(0) THEN Num(0)
               ELSE sub(Ty, q_product, div(Ty, mul(Ty, dot_product, dot_product), q_product))
    IN at(Impl(U32(oc)),
          quadrance_u32(oc, v_1, <<Num(0), Num(0)>>),
          quadrance_u32(oc, v_2, <<Num(0), Num(0)>>))

\* slip: plain subtraction instead of abs_diff
cross_u32_plain_sub(oc, v_1, v_2) ==
    LET at(Ty) ==
            LET a == mul(Ty, v_1[1], v_2[2])
                b == mul(Ty, v_1[2], v_2[1])
            IN sub(Ty, a, b)
    IN at(Impl(U32(oc)))

cross_u32(oc, v_1, v_2) ==
    LET at(Ty) ==
            LET a == mul(Ty, v_1[1], v_2[2])
                b == mul(Ty, v_1[2], v_2[1])
            IN abs_diff(Ty, a, b)
    IN at(Impl(U32(oc)))

\* slip: plain subtraction instead of abs_diff
quadrance_u64_plain_sub(oc, p_1, p_2) ==
    LET at(Ty) ==
            LET dx == sub(Ty, p_1[1], p_2[1])
                dy == sub(Ty, p_1[2], p_2[2])
            IN add(Ty, mul(Ty, dx, dx), mul(Ty, dy, dy))
    IN at(Impl(U64(oc)))

quadrance_u64(oc, p_1, p_2) ==
    LET at(Ty) ==
            LET dx == abs_diff(Ty, p_1[1], p_2[1])
                dy == abs_diff(Ty, p_1[2], p_2[2])
            IN add(Ty, mul(Ty, dx, dx), mul(Ty, dy, dy))
    IN at(Impl(U64(oc)))

archimedes_u64(oc, q_1, q_2, q_3) ==
    LET at(Ty) ==
            LET temp == sub(Ty, add(Ty, q_1, q_2), q_3)
                four == Num(4)
            IN sub(Ty, mul(Ty, mul(Ty, four, q_1), q_2), mul(Ty, temp, temp))
    IN at(Impl(U64(oc)))

spread_u64(oc, v_1, v_2) ==
    LET at(Ty, q_1, q_2) ==
            LET dot_product == add(Ty, mul(Ty, v_1[1], v_2[1]), mul(Ty, v_1[2], v_2[2]))
                q_product == mul(Ty, q_1, q_2)
            IN IF Panicked(dot_product) \/ Panicked(q_product) THEN PANIC
               ELSE IF q_product = Num(0) THEN Num(0)
               ELSE sub(Ty, q_product, div(Ty, mul(Ty, dot_product, dot_product), q_product))
    IN at(Impl(U64(oc)),
          quadrance_u64(oc, v_1, <<Num(0), Num(0)>>),
          quadrance_u64(oc, v_2, <<Num(0), Num(0)>>))

cross_u64(oc, v_1, v_2) ==
    LET at(Ty) ==
            LET a == mul(Ty, v_1[1], v_2[2])
                b == mul(Ty, v_1[2], v_2[1])
            IN abs_diff(Ty, a, b)
    IN at(Impl(U64(oc)))

quadrance_i128(oc, p_1, p_2) ==
    LET at(Ty) ==
            LET dx == sub(Ty, p_1[1], p_2[1])
                dy == sub(Ty, p_1[2], p_2[2])
            IN add(Ty, mul(Ty, dx, dx), mul(Ty, dy, dy))
    IN at(Impl(I128(oc)))

archimedes_i128(oc, q_1, q_2, q_3) ==
    LET at(Ty) ==
            LET temp == sub(Ty, add(Ty, q_1, q_2), q_3)
                four == Num(4)
            IN sub(Ty, mul(Ty, mul(Ty, four, q_1), q_2), mul(Ty, temp, temp))
    IN at(Impl(I128(oc)))

spread_i128(oc, v_1, v_2) ==
    LET at(Ty, q_1, q_2) ==
            LET dot_product == add(Ty, mul(Ty, v_1[1], v_2[1]), mul(Ty, v_1[2], v_2[2]))
                q_product == mul(Ty, q_1, q_2)
            IN IF Panicked(dot_product) \/ Panicked(q_product) THEN PANIC
               ELSE IF q_product = Num(0) THEN Num(0)
               ELSE sub(Ty, q_product, div(Ty, mul(Ty, dot_product, dot_product), q_product))
    IN at(Impl(I128(oc)),
          quadrance_i128(oc, v_1, <<Num(0), Num(0)>>),
          quadrance_i128(oc, v_2, <<Num(0), Num(0)>>))

cross_i128(oc, v_1, v_2) ==
    LET at(Ty) == sub(Ty, mul(Ty, v_1[1], v_2[2]), mul(Ty, v_1[2], v_2[1]))
    IN at(Impl(I128(oc)))

quadrance_u128(oc, p_1, p_2) ==
    LET at(Ty) ==
            LET dx == abs_diff(Ty, p_1[1], p_2[1])
                dy == abs_diff(Ty, p_1[2], p_2[2])
            IN add(Ty, mul(Ty, dx, dx), mul(Ty, dy, dy))
    IN at(Impl(U128(oc)))

archimedes_u128(oc, q_1, q_2, q_3) ==
    LET at(Ty) ==
            LET temp == sub(Ty, add(Ty, q_1, q_2), q_3)
                four == Num(4)
            IN sub(Ty, mul(Ty, mul(Ty, four, q_1), q_2), mul(Ty, temp, temp))
    IN at(Impl(U128(oc)))

spread_u128(oc, v_1, v_2) ==
    LET at(Ty, q_1, q_2) ==
            LET dot_product == add(Ty, mul(Ty, v_1[1], v_2[1]), mul(Ty, v_1[2], v_2[2]))
                q_product == mul(Ty, q_1, q_2)
            IN IF Panicked(dot_product) \/ Panicked(q_product) THEN PANIC
               ELSE IF q_product = Num(0) THEN Num(0)
               ELSE sub(Ty, q_product, div(Ty, mul(Ty, dot_product, dot_product), q_product))
    IN at(Impl(U128(oc)),
          quadrance_u128(oc, v_1, <<Num(0), Num(0)>>),
          quadrance_u128(oc, v_2, <<Num(0), Num(0)>>))

cross_u128(oc, v_1, v_2) ==
    LET at(Ty) ==
            LET a == mul(Ty, v_1[1], v_2[2])
                b == mul(Ty, v_1[2], v_2[1])
            IN abs_diff(Ty, a, b)
    IN at(Impl(U128(oc)))

(***************************************************************************)
(* The calls.  Init draws the numeric type and the arguments; each action  *)
(* applies one function of the crate to them.                              *)
(***************************************************************************)
IntTypes == {I32(TRUE), I32(FALSE), I64(TRUE), I64(FALSE), I128(TRUE), I128(FALSE)}

UintTypes == {U32(TRUE), U32(FALSE), U64(TRUE), U64(FALSE), U128(TRUE), U128(FALSE)}

Types == IntTypes \cup UintTypes \cup {Rational(TRUE), F64}

\* the values -m..m of a type (0..m when unsigned) and its extreme values; whole
\* and halved values at Ratio; at f64 the halves -m/2..m/2 and the largest
\* finite values
Scalars(Ty, m) ==
    IF Ty.kind = "ratio"
    THEN {Ratio(n, d) : n \in -MaxNum..MaxNum, d \in {1, 2}}
    ELSE IF Ty.kind = "float"
    THEN {Flt(n, -1) : n \in -m..m} \cup {MinVal(Ty), MaxVal(Ty)}
    ELSE IF Ty.kind = "int"
    THEN {Num(z) : z \in -m..m} \cup {MinVal(Ty), MaxVal(Ty)}
    ELSE {Num(z) : z \in 0..m} \cup {MaxVal(Ty)}

\* The larger argument lists are drawn at one signed and one unsigned integer
\* type, each in both builds, at Ratio and at f64.
SmallTypes == {I64(TRUE), I64(FALSE), U64(TRUE), U64(FALSE), Rational(TRUE), F64}

\* the values of the larger argument lists: no extremes, halves for Ratio and
\* for f64
Small(Ty) ==
    IF Ty.kind = "ratio"
    THEN {Ratio(n, 2) : n \in -1..(MaxTri + 1)}
    ELSE IF Ty.kind = "float"
    THEN {Flt(n, -1) : n \in -1..MaxTri}
    ELSE IF Ty.kind = "int"
    THEN {Num(z) : z \in -1..MaxTri}
    ELSE {Num(z) : z \in 0..(MaxTri + 1)}

\* two vectors of moderate size whose quadrances and dot product are values of
\* the type while their products are not: (300, 300) and (200, 100) at 32 bits,
\* and the same directions scaled by 2^8 and 2^24 at 64 and 128 bits; and
\* (256, 0) twice at 32 bits, (2^16, 0) and (2^32, 0) at 64 and 128 bits, where
\* the product of the quadrances is 2^bits
Overflowing(Ty) ==
    IF Ty.kind \in {"ratio", "float"} THEN {}
    ELSE LET h == ZMul(Num(100), Num(2 ^ ((Ty.bits \div 4) - 8)))
             k(m) == ZMul(Num(m), h)
             r == ZMul(Num(2 ^ (Ty.bits \div 8)), Num(2 ^ (Ty.bits \div 8)))
         IN {<< <<k(3), k(3)>>, <<k(2), k(1)>> >>,
             << <<r, Num(0)>>, <<r, Num(0)>> >>}

\* two vectors (or two points) of the plane, at the unsigned types first
InitVec ==
    /\ \/ T \in UintTypes
       \/ T \in Types \ UintTypes
    /\ shape = "vec"
    /\ args \in ((Scalars(T, MaxCoord) \X Scalars(T, MaxCoord))
                 \X (Scalars(T, MaxCoord) \X Scalars(T, MaxCoord)))
                \cup Overflowing(T)

\* three quadrances
InitQuad ==
    /\ T \in Types
    /\ shape = "quad"
    /\ args \in Scalars(T, MaxQ) \X Scalars(T, MaxQ) \X Scalars(T, MaxQ)

\* zero and the extreme values of an integer type or of f64
Far(Ty) ==
    IF Ty.kind = "ratio" THEN {} ELSE {zero(Ty), MinVal(Ty), MaxVal(Ty)}

\* the triangles of the integration tests: the 3-4-5 right triangle and three
\* collinear points
Pythagorean == <<<<Num(0), Num(0)>>, <<Num(3), Num(0)>>, <<Num(0), Num(4)>>>>

OnOneLine == <<<<Num(0), Num(0)>>, <<Num(1), Num(1)>>, <<Num(2), Num(2)>>>>

\* the same triangles with f64 coordinates
Pythagorean_f64 == <<<<Flt(0, 0), Flt(0, 0)>>, <<Flt(3, 0), Flt(0, 0)>>, <<Flt(0, 0), Flt(4, 0)>>>>

OnOneLine_f64 == <<<<Flt(0, 0), Flt(0, 0)>>, <<Flt(1, 0), Flt(1, 0)>>, <<Flt(2, 0), Flt(2, 0)>>>>

\* three points of the plane: near the origin, at the extremes, or of the tests
InitTri ==
    /\ T \in SmallTypes
    /\ shape = "tri"
    /\ args \in ((Small(T) \X Small(T)) \X (Small(T) \X Small(T))
                 \X (Small(T) \X Small(T)))
                \cup ((Far(T) \X Far(T)) \X (Far(T) \X Far(T))
                      \X (Far(T) \X Far(T)))
                \cup (IF T.kind = "float" THEN {Pythagorean_f64, OnOneLine_f64}
                      ELSE {Pythagorean, OnOneLine})

\* two lines (a, b, c), or two points of space
InitTriples ==
    /\ T \in SmallTypes
    /\ shape = "triples"
    /\ args \in (Small(T) \X Small(T) \X Small(T))
                \X (Small(T) \X Small(T) \X Small(T))

\* a point and a line
InitPointLine ==
    /\ T \in SmallTypes
    /\ shape = "point_line"
    /\ args \in (Small(T) \X Small(T)) \X (Small(T) \X Small(T) \X Small(T))

\* the non-negative values up to m, halved for Ratio and for f64
Grid(Ty, m) ==
    IF Ty.kind = "ratio" THEN {Ratio(n, 2) : n \in 0..m}
    ELSE IF Ty.kind = "float" THEN {Flt(n, -1) : n \in 0..m}
    ELSE {Num(z) : z \in 0..m}

\* the argument lists of eight and nine coordinates are drawn at one signed
\* integer type, at one unsigned integer type in both builds, at Ratio and at
\* f64
GridTypes == {I64(TRUE), U64(TRUE), U64(FALSE), Rational(TRUE), F64}

\* a point and the three vertices of a triangle
InitPointTriangle ==
    /\ T \in GridTypes
    /\ shape = "point_triangle"
    /\ args \in (Grid(T, MaxPit + 1) \X Grid(T, MaxPit + 1))
                \X (Grid(T, MaxPit + 1) \X Grid(T, MaxPit + 1))
                \X (Grid(T, MaxPit + 1) \X Grid(T, MaxPit + 1))
                \X (Grid(T, MaxPit + 1) \X Grid(T, MaxPit + 1))

\* three points of space
InitTri3D ==
    /\ T \in GridTypes
    /\ shape = "tri3d"
    /\ args \in (Grid(T, Max3D) \X Grid(T, Max3D) \X Grid(T, Max3D))
                \X (Grid(T, Max3D) \X Grid(T, Max3D) \X Grid(T, Max3D))
                \X (Grid(T, Max3D) \X Grid(T, Max3D) \X Grid(T, Max3D))

\* one value
InitScalar ==
    /\ T \in Types
    /\ shape = "scalar"
    /\ args \in {<<s>> : s \in Scalars(T, MaxQ)}

\* values around the thresholds 1/2 and 1: quarters for Ratio and for f64
Spreads(Ty) ==
    IF Ty.kind = "ratio"
    THEN {Ratio(n, 4) : n \in -1..(2 * MaxNum + 1)}
    ELSE IF Ty.kind = "float"
    THEN {Flt(n, -2) : n \in -1..(2 * MaxNum + 1)}
    ELSE IF Ty.kind = "int"
    THEN {Num(z) : z \in -1..MaxNum}
    ELSE {Num(z) : z \in 0..MaxNum}

\* three spreads
InitSpreads ==
    /\ T \in Types
    /\ shape = "spreads"
    /\ args \in Spreads(T) \X Spreads(T) \X Spreads(T)

Init ==
    /\ \/ InitScalar
       \/ InitSpreads
       \/ InitTri3D
       \/ InitPointLine
       \/ InitTriples
       \/ InitTri
       \/ InitPointTriangle
       \/ InitQuad
       \/ InitVec
    /\ call = "none"
    /\ ret = "none"
    /\ logger = "none"

\* a call of a generic function on arguments of shape s
Apply(s, name, result) ==
    /\ shape = s
    /\ call = "none"
    /\ call' = name
    /\ ret' = result
    /\ UNCHANGED <<T, shape, args, logger>>

\* a call of a fixed-type specialization, made when the arguments are of its type
ApplyAt(s, Ty, name, result) ==
    /\ T = Ty
    /\ Apply(s, name, result)

Call_archimedes ==
    Apply("quad", "archimedes", archimedes(Impl(T), args[1], args[2], args[3]))

Call_quadrance == Apply("vec", "quadrance", quadrance(Impl(T), args[1], args[2]))

Call_spread == Apply("vec", "spread", spread(Impl(T), args[1], args[2]))

Call_safe_spread == Apply("vec", "safe_spread", safe_spread(Impl(T), args[1], args[2]))

Call_cross == Apply("vec", "cross", cross(Impl(T), args[1], args[2]))

Call_quadrance_from_line ==
    Apply("point_line", "quadrance_from_line",
          quadrance_from_line(Impl(T), args[1], args[2]))

Call_safe_quadrance_from_line ==
    Apply("point_line", "safe_quadrance_from_line",
          safe_quadrance_from_line(Impl(T), args[1], args[2]))

Call_spread_from_line ==
    Apply("triples", "spread_from_line", spread_from_line(Impl(T), args[1], args[2]))

Call_safe_spread_from_line ==
    Apply("triples", "safe_spread_from_line",
          safe_spread_from_line(Impl(T), args[1], args[2]))

Call_quadrance_from_three_points ==
    Apply("tri", "quadrance_from_three_points",
          quadrance_from_three_points(Impl(T), args[1], args[2], args[3]))

Call_spread_from_three_points ==
    Apply("tri", "spread_from_three_points",
          spread_from_three_points(Impl(T), args[1], args[2], args[3]))

Call_cross_from_three_points ==
    Apply("tri", "cross_from_three_points",
          cross_from_three_points(Impl(T), args[1], args[2], args[3]))

Call_twist == Apply("tri", "twist", twist(Impl(T), args[1], args[2], args[3]))

Call_quadrance3d == Apply("triples", "quadrance3d", quadrance3d(Impl(T), args[1], args[2]))

Call_dilatation == Apply("vec", "dilatation", dilatation(Impl(T), args[1], args[2]))

Call_safe_dilatation ==
    Apply("vec", "safe_dilatation", safe_dilatation(Impl(T), args[1], args[2]))

Call_cosine_law ==
    Apply("quad", "cosine_law", cosine_law(Impl(T), args[1], args[2], args[3]))

Call_safe_cosine_law ==
    Apply("quad", "safe_cosine_law", safe_cosine_law(Impl(T), args[1], args[2], args[3]))

Call_turn == Apply("tri", "turn", turn(Impl(T), args[1], args[2], args[3]))

Call_are_collinear ==
    Apply("tri", "are_collinear", are_collinear(Impl(T), args[1], args[2], args[3]))

Call_is_valid_triangle ==
    Apply("tri", "is_valid_triangle", is_valid_triangle(Impl(T), args[1], args[2], args[3]))

Call_satisfies_triangle_inequality ==
    Apply("quad", "satisfies_triangle_inequality",
          satisfies_triangle_inequality(Impl(T), args[1], args[2], args[3]))

Call_is_valid_spread ==
    Apply("scalar", "is_valid_spread", is_valid_spread(Impl(T), args[1]))

Call_is_right_triangle ==
    Apply("quad", "is_right_triangle",
          is_right_triangle(Impl(T), args[1], args[2], args[3]))

Call_is_acute_triangle ==
    Apply("spreads", "is_acute_triangle",
          is_acute_triangle(Impl(T), args[1], args[2], args[3]))

Call_is_obtuse_triangle ==
    Apply("spreads", "is_obtuse_triangle",
          is_obtuse_triangle(Impl(T), args[1], args[2], args[3]))

Call_are_lines_parallel ==
    Apply("triples", "are_lines_parallel", are_lines_parallel(Impl(T), args[1], args[2]))

Call_are_lines_perpendicular ==
    Apply("triples", "are_lines_perpendicular",
          are_lines_perpendicular(Impl(T), args[1], args[2]))

Call_point_in_triangle ==
    Apply("point_triangle", "point_in_triangle",
          point_in_triangle(Impl(T), args[1], args[2], args[3], args[4]))

\* the triangle that Triangle2D::new builds from the three points of the call
Triangle2D_of ==
    Triangle2D_new(Point2D_from(args[1]), Point2D_from(args[2]), Point2D_from(args[3]))

Triangle3D_of ==
    Triangle3D_new(Point3D_from(args[1]), Point3D_from(args[2]), Point3D_from(args[3]))

Call_Triangle2D_quadrances ==
    Apply("tri", "Triangle2D::quadrances", Triangle2D_quadrances(Impl(T), Triangle2D_of))

Call_Triangle2D_area ==
    Apply("tri", "Triangle2D::area", Triangle2D_area(Impl(T), Triangle2D_of))

Call_Triangle2D_twist ==
    Apply("tri", "Triangle2D::twist", Triangle2D_twist(Impl(T), Triangle2D_of))

Call_Triangle2D_is_degenerate ==
    Apply("tri", "Triangle2D::is_degenerate",
          Triangle2D_is_degenerate(Impl(T), Triangle2D_of))

Call_Triangle3D_quadrances ==
    Apply("tri3d", "Triangle3D::quadrances", Triangle3D_quadrances(Impl(T), Triangle3D_of))

Call_quadrance_i64 ==
    ApplyAt("vec", I64(T.checks), "quadrance_i64", quadrance_i64(T.checks, args[1], args[2]))

Call_archimedes_i64 ==
    ApplyAt("quad", I64(T.checks), "archimedes_i64",
            archimedes_i64(T.checks, args[1], args[2], args[3]))

Call_spread_i64 ==
    ApplyAt("vec", I64(T.checks), "spread_i64", spread_i64(T.checks, args[1], args[2]))

Call_cross_i64 ==
    ApplyAt("vec", I64(T.checks), "cross_i64", cross_i64(T.checks, args[1], args[2]))

Call_quadrance_f64 ==
    ApplyAt("vec", F64, "quadrance_f64", quadrance_f64(args[1], args[2]))

Call_archimedes_f64 ==
    ApplyAt("quad", F64, "archimedes_f64", archimedes_f64(args[1], args[2], args[3]))

Call_spread_f64 ==
    ApplyAt("vec", F64, "spread_f64", spread_f64(args[1], args[2]))

Call_cross_f64 ==
    ApplyAt("vec", F64, "cross_f64", cross_f64(args[1], args[2]))

Call_quadrance_i32 ==
    ApplyAt("vec", I32(T.checks), "quadrance_i32", quadrance_i32(T.checks, args[1], args[2]))

Call_archimedes_i32 ==
    ApplyAt("quad", I32(T.checks), "archimedes_i32",
            archimedes_i32(T.checks, args[1], args[2], args[3]))

Call_spread_i32 ==
    ApplyAt("vec", I32(T.checks), "spread_i32", spread_i32(T.checks, args[1], args[2]))

Call_cross_i32 ==
    ApplyAt("vec", I32(T.checks), "cross_i32", cross_i32(T.checks, args[1], args[2]))

Call_quadrance_u32 ==
    ApplyAt("vec", U32(T.checks), "quadrance_u32", quadrance_u32(T.checks, args[1], args[2]))

Call_archimedes_u32 ==
    ApplyAt("quad", U32(T.checks), "archimedes_u32",
            archimedes_u32(T.checks, args[1], args[2], args[3]))

Call_spread_u32 ==
    ApplyAt("vec", U32(T.checks), "spread_u32", spread_u32(T.checks, args[1], args[2]))

Call_cross_u32 ==
    ApplyAt("vec", U32(T.checks), "cross_u32", cross_u32(T.checks, args[1], args[2]))

Call_quadrance_u64 ==
    ApplyAt("vec", U64(T.checks), "quadrance_u64", quadrance_u64(T.checks, args[1], args[2]))

Call_archimedes_u64 ==
    ApplyAt("quad", U64(T.checks), "archimedes_u64",
            archimedes_u64(T.checks, args[1], args[2], args[3]))

Call_spread_u64 ==
    ApplyAt("vec", U64(T.checks), "spread_u64", spread_u64(T.checks, args[1], args[2]))

Call_cross_u64 ==
    ApplyAt("vec", U64(T.checks), "cross_u64", cross_u64(T.checks, args[1], args[2]))

Call_quadrance_i128 ==
    ApplyAt("vec", I128(T.checks), "quadrance_i128", quadrance_i128(T.checks, args[1], args[2]))

Call_archimedes_i128 ==
    ApplyAt("quad", I128(T.checks), "archimedes_i128",
            archimedes_i128(T.checks, args[1], args[2], args[3]))

Call_spread_i128 ==
    ApplyAt("vec", I128(T.checks), "spread_i128", spread_i128(T.checks, args[1], args[2]))

Call_cross_i128 ==
    ApplyAt("vec", I128(T.checks), "cross_i128", cross_i128(T.checks, args[1], args[2]))

Call_quadrance_u128 ==
    ApplyAt("vec", U128(T.checks), "quadrance_u128", quadrance_u128(T.checks, args[1], args[2]))

Call_archimedes_u128 ==
    ApplyAt("quad", U128(T.checks), "archimedes_u128",
            archimedes_u128(T.checks, args[1], args[2], args[3]))

Call_spread_u128 ==
    ApplyAt("vec", U128(T.checks), "spread_u128", spread_u128(T.checks, args[1], args[2]))

Call_cross_u128 ==
    ApplyAt("vec", U128(T.checks), "cross_u128", cross_u128(T.checks, args[1], args[2]))

Next ==
    \/ Call_archimedes
    \/ Call_quadrance
    \/ Call_spread
    \/ Call_safe_spread
    \/ Call_cross
    \/ Call_quadrance_from_line
    \/ Call_safe_quadrance_from_line
    \/ Call_spread_from_line
    \/ Call_safe_spread_from_line
    \/ Call_quadrance_from_three_points
    \/ Call_spread_from_three_points
    \/ Call_cross_from_three_points
    \/ Call_quadrance3d
    \/ Call_twist
    \/ Call_dilatation
    \/ Call_safe_dilatation
    \/ Call_cosine_law
    \/ Call_safe_cosine_law
    \/ Call_turn
    \/ Call_are_collinear
    \/ Call_is_valid_triangle
    \/ Call_satisfies_triangle_inequality
    \/ Call_is_valid_spread
    \/ Call_is_right_triangle
    \/ Call_is_acute_triangle
    \/ Call_is_obtuse_triangle
    \/ Call_are_lines_parallel
    \/ Call_are_lines_perpendicular
    \/ Call_point_in_triangle
    \/ Call_Triangle2D_quadrances
    \/ Call_Triangle2D_area
    \/ Call_Triangle2D_twist
    \/ Call_Triangle2D_is_degenerate
    \/ Call_Triangle3D_quadrances
    \/ Call_quadrance_i64
    \/ Call_archimedes_i64
    \/ Call_spread_i64
    \/ Call_cross_i64
    \/ Call_quadrance_f64
    \/ Call_archimedes_f64
    \/ Call_spread_f64
    \/ Call_cross_f64
    \/ Call_quadrance_i32
    \/ Call_archimedes_i32
    \/ Call_spread_i32
    \/ Call_cross_i32
    \/ Call_quadrance_u32
    \/ Call_archimedes_u32
    \/ Call_spread_u32
    \/ Call_cross_u32
    \/ Call_quadrance_u64
    \/ Call_archimedes_u64
    \/ Call_spread_u64
    \/ Call_cross_u64
    \/ Call_quadrance_i128
    \/ Call_archimedes_i128
    \/ Call_spread_i128
    \/ Call_cross_i128
    \/ Call_quadrance_u128
    \/ Call_archimedes_u128
    \/ Call_spread_u128
    \/ Call_cross_u128

Spec == Init /\ [][Next]_vars

(***************************************************************************)
(* The crate called from several threads of one process, with the optional *)
(* logger (logging.rs, feature std).  Here T is the type the threads       *)
(* instantiate the formulas at, and args, call and ret hold one entry for  *)
(* each thread.  A call takes two steps, so that the calls of two threads  *)
(* overlap and the logger can be installed while a call is running.        *)
(***************************************************************************)
Threads == {1, 2}

SharedNames == {"quadrance", "cross", "spread", "safe_spread"}

\* the argument lists the threads call with: a vector and a unit or zero vector
SharedArgs(Ty) ==
    {<<<<a, one(Ty)>>, v>> : a \in Grid(Ty, MaxShared),
                            v \in {<<one(Ty), zero(Ty)>>, <<zero(Ty), zero(Ty)>>}}

Idle == [tag |-> "Idle"]

Running == [tag |-> "Running"]

Returned(x) == [tag |-> "Returned", val |-> x]

\* what the function called name returns at type Ty on the arguments a
Value(name, Ty, a) ==
    CASE name = "quadrance" -> quadrance(Ty, a[1], a[2])
      [] name = "cross" -> cross(Ty, a[1], a[2])
      [] name = "spread" -> spread(Ty, a[1], a[2])
      [] name = "safe_spread" -> safe_spread(Ty, a[1], a[2])

InitThreads ==
    /\ T \in GridTypes
    /\ shape = "threads"
    /\ args = [t \in Threads |-> <<>>]
    /\ call = [t \in Threads |-> "none"]
    /\ ret = [t \in Threads |-> Idle]
    /\ logger = "none"

\* thread t calls a function: the arguments are passed by value
Enter(t) ==
    /\ ret[t] # Running
    /\ \E name \in SharedNames, a \in SharedArgs(T) :
          /\ call' = [call EXCEPT ![t] = name]
          /\ args' = [args EXCEPT ![t] = a]
    /\ ret' = [ret EXCEPT ![t] = Running]
    /\ UNCHANGED <<T, shape, logger>>

\* the call of thread t returns: the formulas read their arguments only
Return(t) ==
    /\ ret[t] = Running
    /\ ret' = [ret EXCEPT ![t] = Returned(Value(call[t], Impl(T), args[t]))]
    /\ UNCHANGED <<T, shape, args, call, logger>>

\* the default filters a caller passes to the *_with_filter functions
Filters == {"info", "debug"}

\* init_logger installs the logger; a second initialisation panics in the
\* caller and leaves the installed logger in place
Call_init_logger ==
    /\ logger' = "installed"
    /\ UNCHANGED <<T, shape, args, call, ret>>

\* init_logger_with_filter installs the logger with a default filter; a second
\* initialisation panics in the caller and leaves the installed logger in place
Call_init_logger_with_filter ==
    /\ \E filter \in Filters : logger' = "installed"
    /\ UNCHANGED <<T, shape, args, call, ret>>

\* try_init_logger installs the logger; a second initialisation returns Err and
\* leaves the installed logger in place
Call_try_init_logger ==
    /\ logger' = "installed"
    /\ UNCHANGED <<T, shape, args, call, ret>>

\* try_init_logger_with_filter installs the logger with a default filter; a
\* second initialisation returns Err and leaves the installed logger in place
Call_try_init_logger_with_filter ==
    /\ \E filter \in Filters : logger' = "installed"
    /\ UNCHANGED <<T, shape, args, call, ret>>

\* is_logger_initialized reads the maximum log level, which is Off until a
\* logger is installed and the level of the filter afterwards; it writes nothing
Call_is_logger_initialized ==
    /\ Bool(logger = "installed") \in {Bool(TRUE), Bool(FALSE)}
    /\ UNCHANGED <<T, shape, args, call, ret, logger>>

NextThreads ==
    \/ \E t \in Threads : Enter(t)
    \/ \E t \in Threads : Return(t)
    \/ Call_init_logger
    \/ Call_init_logger_with_filter
    \/ Call_try_init_logger
    \/ Call_try_init_logger_with_filter
    \/ Call_is_logger_initialized

SpecThreads == InitThreads /\ [][NextThreads]_vars

(***************************************************************************)
(* Properties.                                                             *)
(***************************************************************************)
ZeroVec == <<Num(0), Num(0)>>

\* the origin at the type Ty
Origin(Ty) == <<zero(Ty), zero(Ty)>>

\* a finite f64: neither an infinity nor NaN
Finite(x) == x.fl = "fin"

SafeCalls ==
    {"safe_spread", "safe_quadrance_from_line", "safe_spread_from_line",
     "safe_dilatation", "safe_cosine_law"}

\* exact arithmetic: the integers and the rationals without a width
Exact == Impl(Rational(TRUE))

\* whether the divisor of the formula that was called is zero as an exact
\* number (a product of exact numbers is zero iff one of its factors is); at
\* f64, whether the quadrance the formula divides by is 0.0
DenominatorIsZero ==
    LET Ty == IF T.kind = "float" THEN Impl(T) ELSE Exact
        Zero(v) == eq(quadrance(Ty, v, Origin(Ty)), zero(Ty))
    IN CASE call = "safe_spread" -> Zero(args[1]) \/ Zero(args[2])
         [] call = "safe_quadrance_from_line" -> Zero(<<args[2][1], args[2][2]>>)
         [] call = "safe_spread_from_line" ->
               \/ Zero(<<args[1][1], args[1][2]>>)
               \/ Zero(<<args[2][1], args[2][2]>>)
         [] call = "safe_dilatation" -> Zero(args[1])
         [] call = "safe_cosine_law" -> eq(args[2], zero(Ty)) \/ eq(args[3], zero(Ty))

\* what the unchecked twin of the called function returns on the same arguments
Twin ==
    CASE call = "safe_spread" -> spread(Impl(T), args[1], args[2])
      [] call = "safe_quadrance_from_line" -> quadrance_from_line(Impl(T), args[1], args[2])
      [] call = "safe_spread_from_line" -> spread_from_line(Impl(T), args[1], args[2])
      [] call = "safe_dilatation" -> dilatation(Impl(T), args[1], args[2])
      [] call = "safe_cosine_law" -> cosine_law(Impl(T), args[1], args[2], args[3])

\* C1: safe_spread(v1, v2) returns Err(DivisionByZero) if and only if v1 or v2
\* is the zero vector, at integer and at rational coordinates.
C1_SafeSpreadErrIffZeroVector ==
    (call = "safe_spread" /\ T.kind # "float") =>
        ((ret = Err(DivisionByZero)) <=> (args[1] = ZeroVec \/ args[2] = ZeroVec))

\* C2: every checked function returns Ok(x), x being the value its unchecked
\* twin returns on the same input, when the denominator is non-zero, and
\* Err(DivisionByZero) when the denominator is zero.
C2_SafeTwinsAgree ==
    call \in SafeCalls =>
        IF DenominatorIsZero
        THEN ret = Err(DivisionByZero)
        ELSE ret.tag = "Ok" /\ ret.val = Twin

\* C3: on the fixed-width integer types no checked function has a fatal failure:
\* whenever the zero-guard passes the divisor is non-zero, nothing traps, and
\* every failure is an Err return value.
C3_SafeNeverPanics ==
    (call \in SafeCalls /\ T.kind \in {"int", "uint"}) => ret.tag # "Panic"

SignedNames == {"i32", "i64", "i128"}

UnsignedNames == {"u32", "u64", "u128"}

Named(f, names) == {f \o "_" \o x : x \in names}

QuadranceCalls == Named("quadrance", SignedNames \cup UnsignedNames)

CrossCalls == Named("cross", SignedNames \cup UnsignedNames)

SpreadCalls == Named("spread", SignedNames \cup UnsignedNames)

\* the specialization that was called, applied to other arguments
SpecializedQuadrance(a, b) ==
    CASE call = "quadrance_i32" -> quadrance_i32(T.checks, a, b)
      [] call = "quadrance_i64" -> quadrance_i64(T.checks, a, b)
      [] call = "quadrance_i128" -> quadrance_i128(T.checks, a, b)
      [] call = "quadrance_u32" -> quadrance_u32(T.checks, a, b)
      [] call = "quadrance_u64" -> quadrance_u64(T.checks, a, b)
      [] call = "quadrance_u128" -> quadrance_u128(T.checks, a, b)

SpecializedCross(a, b) ==
    CASE call = "cross_i32" -> cross_i32(T.checks, a, b)
      [] call = "cross_i64" -> cross_i64(T.checks, a, b)
      [] call = "cross_i128" -> cross_i128(T.checks, a, b)
      [] call = "cross_u32" -> cross_u32(T.checks, a, b)
      [] call = "cross_u64" -> cross_u64(T.checks, a, b)
      [] call = "cross_u128" -> cross_u128(T.checks, a, b)

\* the same type in a build with overflow checks: it panics where T overflows
Checked(Ty) == [Ty EXCEPT !.checks = TRUE]

\* C4: quadrance(P, P) == 0 for every point P: the generic quadrance, quadrance3d
\* and every fixed-type specialization.
C4_QuadranceOfPointWithItself ==
    (/\ call \in {"quadrance", "quadrance3d"} \cup QuadranceCalls
     /\ args[1] = args[2]) => eq(ret, zero(T))

C4_Witness ==
    /\ call = "quadrance_u32"
    /\ args[1] = args[2]
    /\ args[1][1] = MaxVal(T)
    /\ args[1][2] = Num(1)

\* C5: quadrance(A, B) == quadrance(B, A): the generic quadrance and quadrance3d
\* (at the signed and rational types the two calls also panic together; at an
\* unsigned type they agree whenever both return), and the signed and unsigned
\* specializations.
C5_QuadranceSymmetric ==
    /\ (call = "quadrance" /\ T.kind # "uint") =>
            eq(ret, quadrance(Impl(T), args[2], args[1]))
    /\ (call = "quadrance" /\ T.kind = "uint" /\ ~Panicked(ret)
            /\ ~Panicked(quadrance(Impl(T), args[2], args[1]))) =>
            ret = quadrance(Impl(T), args[2], args[1])
    /\ (call = "quadrance3d" /\ T.kind # "uint") =>
            eq(ret, quadrance3d(Impl(T), args[2], args[1]))
    /\ (call = "quadrance3d" /\ T.kind = "uint" /\ ~Panicked(ret)
            /\ ~Panicked(quadrance3d(Impl(T), args[2], args[1]))) =>
            ret = quadrance3d(Impl(T), args[2], args[1])
    /\ call \in QuadranceCalls => ret = SpecializedQuadrance(args[2], args[1])

C5_Witness ==
    /\ call = "quadrance_u64"
    /\ lt(args[1][1], args[2][1])
    /\ gt(args[1][2], args[2][2])
    /\ ~Panicked(ret) /\ gt(ret, Num(0))

\* C6 as claimed: cross(v, v) == 0 for every vector v, for the generic cross and
\* for every specialization: the call returns 0 whenever it returns, and it
\* fails to return only in a build with overflow checks, when v.0 * v.1
\* overflows.
C6_CrossOfVectorWithItself ==
    (call \in {"cross"} \cup CrossCalls /\ args[1] = args[2]) =>
        /\ ~Panicked(ret) => eq(ret, zero(T))
        /\ Panicked(ret) <=>
              (/\ T.kind \in {"int", "uint"}
               /\ T.checks
               /\ ~InRange(T, ZMul(args[1][1], args[1][2])))

\* C6 amended: cross(v, v) == 0 whenever the call returns and, at f64, the
\* product v.0 * v.1 is finite; at f64 a product that overflows to an infinity
\* gives NaN, which equals nothing.  The call fails to return only in a build
\* with overflow checks, when v.0 * v.1 overflows the integer type.
C6_CrossOfVectorWithItselfFinite ==
    (call \in {"cross"} \cup CrossCalls /\ args[1] = args[2]) =>
        /\ (~Panicked(ret) /\ T.kind # "float") => ret = Num(0)
        /\ T.kind = "float" =>
              IF Finite(mul(Impl(T), args[1][1], args[1][2]))
              THEN eq(ret, zero(T))
              ELSE ret = NAN
        /\ Panicked(ret) <=>
              (/\ T.kind \in {"int", "uint"}
               /\ T.checks
               /\ ~InRange(T, ZMul(args[1][1], args[1][2])))

\* the generic cross at f64 on a vector of the largest finite value and one half
C6_Witness ==
    /\ call = "cross"
    /\ T.kind = "float"
    /\ args[1] = args[2]
    /\ args[1] = <<MaxVal(T), Flt(1, -1)>>
    /\ ret = zero(T)

\* C7: for in-range inputs (both products v1.x*v2.y and v1.y*v2.x fit the type)
\* cross_uN(v1, v2) is the absolute value of the signed cross product of the
\* same coordinates: never negative, never wrapped, unchanged by swapping v1, v2.
C7_UnsignedCrossIsAbsoluteValue ==
    (/\ call \in Named("cross", UnsignedNames)
     /\ InRange(T, ZMul(args[1][1], args[2][2]))
     /\ InRange(T, ZMul(args[1][2], args[2][1]))) =>
        /\ ret = ZAbs(ZSub(ZMul(args[1][1], args[2][2]), ZMul(args[1][2], args[2][1])))
        /\ ret = ZAbs(cross(Exact, args[1], args[2]))
        /\ ge(ret, Num(0))
        /\ ret = SpecializedCross(args[2], args[1])

C7_Witness ==
    /\ call = "cross_u32"
    /\ InRange(T, ZMul(args[1][1], args[2][2]))
    /\ InRange(T, ZMul(args[1][2], args[2][1]))
    /\ ZLess(ZMul(args[1][1], args[2][2]), ZMul(args[1][2], args[2][1]))

NonDegenerate == twist(Exact, args[1], args[2], args[3]) # Num(0)

\* C8: for a non-degenerate triangle, with quadrances and spreads computed at
\* the same rational or integer type, q1*s1 == q2*s2 == q3*s3 (the identity the
\* documentation of sine_law_product states).
C8_SineLawProductsEqual ==
    (/\ call = "spread_from_three_points"
     /\ T.kind \in {"int", "ratio"}
     /\ NonDegenerate
     /\ ~Panicked(ret[1])) =>
        LET q == quadrance_from_three_points(Impl(T), args[1], args[2], args[3])
        IN /\ sine_law_product(Impl(T), q[1], ret[1]) = sine_law_product(Impl(T), q[2], ret[2])
           /\ sine_law_product(Impl(T), q[2], ret[2]) = sine_law_product(Impl(T), q[3], ret[3])

\* C9: each signed specialization archimedes_X, quadrance_X, cross_X returns what
\* the generic formula instantiated at X returns; without overflow archimedes_X
\* is 4*q1*q2 - (q1+q2-q3)^2, and archimedes(1, 2, 3) == 8.
C9_SignedSpecializationsMatchGeneric ==
    /\ call \in Named("archimedes", SignedNames) =>
          /\ ret = archimedes(Impl(T), args[1], args[2], args[3])
          /\ ~Panicked(archimedes(Checked(Impl(T)), args[1], args[2], args[3])) =>
                LET t == ZSub(ZAdd(args[1], args[2]), args[3])
                IN ret = ZSub(ZMul(Num(4), ZMul(args[1], args[2])), ZMul(t, t))
    /\ call \in Named("quadrance", SignedNames) =>
          ret = quadrance(Impl(T), args[1], args[2])
    /\ call \in Named("cross", SignedNames) => ret = cross(Impl(T), args[1], args[2])
    /\ (/\ call \in {"archimedes"} \cup Named("archimedes", SignedNames)
        /\ T.kind = "int"
        /\ args = <<Num(1), Num(2), Num(3)>>) => ret = Num(8)

C9_Witness ==
    /\ call = "archimedes_i64"
    /\ args = <<Num(1), Num(2), Num(3)>>
    /\ ret = Num(8)

\* exact quadrances and dot product of the two vectors of a "vec" call
Q1 == ZAdd(ZMul(args[1][1], args[1][1]), ZMul(args[1][2], args[1][2]))

Q2 == ZAdd(ZMul(args[2][1], args[2][1]), ZMul(args[2][2], args[2][2]))

Dot == ZAdd(ZMul(args[1][1], args[2][1]), ZMul(args[1][2], args[2][2]))

\* q1*q2 fits the type of the call (and so does every other intermediate value)
ProductFits == InRange(T, Q1) /\ InRange(T, Q2) /\ InRange(T, ZMul(Q1, Q2))

\* C10 as claimed: for non-zero vectors spread_X returns the numerator
\* q1*q2 - dot^2 of the spread formula (taken where q1*q2 fits the type).
C10_SpreadIsNumerator ==
    (/\ call \in SpreadCalls
     /\ args[1] # ZeroVec /\ args[2] # ZeroVec
     /\ ProductFits) => ret = ZSub(ZMul(Q1, Q2), ZMul(Dot, Dot))

\* C10 amended: for non-zero vectors whose q1*q2 fits the type, spread_X returns
\* q1*q2 - dot^2 / (q1*q2) with the integer division applied to the quotient
\* alone: q1*q2 - 1 for parallel vectors and q1*q2 for all others.
C10_SpreadIsProductMinusQuotient ==
    (/\ call \in SpreadCalls
     /\ args[1] # ZeroVec /\ args[2] # ZeroVec
     /\ ProductFits) =>
        /\ ret = ZSub(ZMul(Q1, Q2), ZQuot(ZMul(Dot, Dot), ZMul(Q1, Q2)))
        /\ ret = IF ZMul(args[1][1], args[2][2]) = ZMul(args[1][2], args[2][1])
                 THEN ZSub(ZMul(Q1, Q2), Num(1))
                 ELSE ZMul(Q1, Q2)

C10_Witness ==
    /\ call = "spread_i32"
    /\ args = << <<Num(1), Num(1)>>, <<Num(1), Num(0)>> >>
    /\ ret = Num(2)

\* the calls that answer whether three points are degenerate
DegeneracyCalls ==
    {"are_collinear", "is_valid_triangle", "Triangle2D::is_degenerate",
     "Triangle2D::twist", "twist"}

\* the answer "the points are degenerate" that the call gave (PANIC if it panicked)
SaidDegenerate ==
    CASE call \in {"are_collinear", "Triangle2D::is_degenerate"} -> ret
      [] call = "is_valid_triangle" -> IF ret = PANIC THEN PANIC ELSE Bool(~ret.bool)
      [] call \in {"Triangle2D::twist", "twist"} ->
            IF Panicked(ret) THEN PANIC ELSE Bool(ret = Num(0))

\* the three points lie on one line, as exact numbers
ExactlyCollinear == twist(Exact, args[1], args[2], args[3]) = Num(0)

\* C11: on every triple of integer points, at a signed or an unsigned type, the
\* five degeneracy queries give the same answer: are_collinear == !is_valid_triangle == Triangle2D.is_degenerate()
\* == (Triangle2D.twist() == 0) == (twist == 0), a panic of one being a panic of
\* all; the answer is true whenever the points are collinear and a call returns.
C11_DegeneracyQueriesAgree ==
    (call \in DegeneracyCalls /\ T.kind \in {"int", "uint"}) =>
        LET tri == Triangle2D_new(Point2D_from(args[1]), Point2D_from(args[2]),
                                  Point2D_from(args[3]))
            collinear == are_collinear(Impl(T), args[1], args[2], args[3])
            valid == is_valid_triangle(Impl(T), args[1], args[2], args[3])
            degenerate == Triangle2D_is_degenerate(Impl(T), tri)
            method_twist == Triangle2D_twist(Impl(T), tri)
            free_twist == twist(Impl(T), args[1], args[2], args[3])
        IN /\ SaidDegenerate = collinear
           /\ SaidDegenerate = degenerate
           /\ SaidDegenerate = (IF valid = PANIC THEN PANIC ELSE Bool(~valid.bool))
           /\ SaidDegenerate = (IF Panicked(method_twist) THEN PANIC
                                ELSE Bool(method_twist = Num(0)))
           /\ SaidDegenerate = (IF Panicked(free_twist) THEN PANIC
                                ELSE Bool(free_twist = Num(0)))
           /\ (ExactlyCollinear /\ SaidDegenerate # PANIC) => SaidDegenerate = Bool(TRUE)

\* (0,0), (1,1), (2,2) reported degenerate by the Triangle2D method
C11_Witness ==
    /\ call = "Triangle2D::is_degenerate"
    /\ T.kind = "int"
    /\ args = OnOneLine
    /\ ret = Bool(TRUE)

\* the three components of a result were all returned
Returned3(r) == ~Panicked(r[1]) /\ ~Panicked(r[2]) /\ ~Panicked(r[3])

\* C12: quadrances come in opposite-vertex order: quadrance_from_three_points
\* returns (quadrance(p2,p3), quadrance(p1,p3), quadrance(p1,p2)),
\* Triangle2D::quadrances returns the identical triple, Triangle3D::quadrances the
\* same with quadrance3d; (0,0),(3,0),(0,4) gives (25,16,9) wherever the call
\* returns (at an unsigned type in a build with overflow checks it does not).
C12_QuadrancesOppositeVertexOrder ==
    /\ call = "quadrance_from_three_points" =>
          ret = <<quadrance(Impl(T), args[2], args[3]), quadrance(Impl(T), args[1], args[3]),
                  quadrance(Impl(T), args[1], args[2])>>
    /\ call = "Triangle2D::quadrances" =>
          /\ ret = quadrance_from_three_points(Impl(T), args[1], args[2], args[3])
          /\ ret = <<quadrance(Impl(T), args[2], args[3]), quadrance(Impl(T), args[1], args[3]),
                     quadrance(Impl(T), args[1], args[2])>>
    /\ call = "Triangle3D::quadrances" =>
          ret = <<quadrance3d(Impl(T), args[2], args[3]), quadrance3d(Impl(T), args[1], args[3]),
                  quadrance3d(Impl(T), args[1], args[2])>>
    /\ (call \in {"quadrance_from_three_points", "Triangle2D::quadrances"}
        /\ args = Pythagorean /\ Returned3(ret)) => ret = <<Num(25), Num(16), Num(9)>>
    /\ (call \in {"quadrance_from_three_points", "Triangle2D::quadrances"}
        /\ args = Pythagorean_f64) => ret = <<Flt(25, 0), Flt(16, 0), Flt(9, 0)>>

C12_Witness ==
    /\ call = "Triangle2D::quadrances"
    /\ args = Pythagorean
    /\ ret = <<Num(25), Num(16), Num(9)>>

\* the edge vectors at p1, as exact numbers
EdgeToP2 == <<sub(Exact, args[2][1], args[1][1]), sub(Exact, args[2][2], args[1][2])>>

EdgeToP3 == <<sub(Exact, args[3][1], args[1][1]), sub(Exact, args[3][2], args[1][2])>>

\* a right angle at p1: both edge vectors non-zero, their dot product zero
RightAngleAtP1 ==
    /\ EdgeToP2 # ZeroVec
    /\ EdgeToP3 # ZeroVec
    /\ add(Exact, mul(Exact, EdgeToP2[1], EdgeToP3[1]),
                  mul(Exact, EdgeToP2[2], EdgeToP3[2])) = Num(0)

\* C13: for integer (signed or unsigned type) or rational points with a right
\* angle at p1, the quadrances
\* satisfy q2 + q3 == q1 and the first component of spread_from_three_points is
\* exactly 1, so is_right_triangle of the three spreads is true; this holds of
\* every call that returns, and at a rational type every call returns.
C13_RightAngleGivesSpreadOne ==
    /\ (call = "quadrance_from_three_points" /\ T.kind \in {"int", "uint", "ratio"}
        /\ RightAngleAtP1
        /\ ~Panicked(ret[1]) /\ ~Panicked(ret[2]) /\ ~Panicked(ret[3])) =>
          add(Impl(T), ret[2], ret[3]) = ret[1]
    /\ (call = "spread_from_three_points" /\ T.kind \in {"int", "uint", "ratio"}
        /\ RightAngleAtP1) =>
          /\ T.kind = "ratio" => ~Panicked(ret[1])
          /\ ~Panicked(ret[1]) =>
                /\ ret[1] = one(T)
                /\ is_right_triangle(Impl(T), ret[1], ret[2], ret[3]) = Bool(TRUE)

\* the 3-4-5 triangle at a rational type: spreads 1, 16/25, 9/25
C13_Witness ==
    /\ call = "spread_from_three_points"
    /\ T.kind = "ratio"
    /\ args = Pythagorean
    /\ RightAngleAtP1
    /\ ret = <<Num(1), Ratio(16, 25), Ratio(9, 25)>>

\* twice the signed area of the three points of the call, as an exact number
ExactTwist == twist(Exact, args[1], args[2], args[3])

\* four times the square of the twist, as an exact number
FourTwistSquared == mul(Exact, Num(4), mul(Exact, ExactTwist, ExactTwist))

\* the quadrea computed from the three points without any overflow: the build
\* with overflow checks computes it without panic
QuadreaFits ==
    ~Panicked(archimedes(Checked(Impl(T)),
                         quadrance(Checked(Impl(T)), args[2], args[3]),
                         quadrance(Checked(Impl(T)), args[1], args[3]),
                         quadrance(Checked(Impl(T)), args[1], args[2])))

\* C14: for integer points (signed, unsigned or rational type) and no overflow,
\* archimedes of quadrance_from_three_points is 4 * twist^2, and Triangle2D::area
\* returns the same value; twist itself, when it computes without overflow, is
\* twice the signed area; the 3-4-5 triangle has twist 12 and quadrea 576.
C14_QuadreaIsFourTwistSquared ==
    /\ (call = "quadrance_from_three_points" /\ T.kind \in {"int", "uint", "ratio"}
        /\ QuadreaFits) =>
          archimedes(Impl(T), ret[1], ret[2], ret[3]) = FourTwistSquared
    /\ (call = "Triangle2D::area" /\ T.kind \in {"int", "uint", "ratio"} /\ QuadreaFits) =>
          /\ ret = FourTwistSquared
          /\ ret = LET q == quadrance_from_three_points(Impl(T), args[1], args[2], args[3])
                   IN archimedes(Impl(T), q[1], q[2], q[3])
    /\ (call = "Triangle2D::area" /\ T.kind = "ratio" /\ args = Pythagorean) =>
          ret = Num(576) /\ ExactTwist = Num(12)
    /\ (call = "twist" /\ T.kind \in {"int", "uint", "ratio"} /\ QuadreaFits
        /\ ~Panicked(twist(Checked(Impl(T)), args[1], args[2], args[3]))) =>
          ret = ExactTwist

\* a triangle of integer points with a non-zero area, computed at an integer type
C14_Witness ==
    /\ call = "Triangle2D::area"
    /\ T.kind = "int"
    /\ QuadreaFits
    /\ ExactTwist # Num(0)
    /\ ret = FourTwistSquared

\* on which side of the line from a to b the point p lies, as an exact number
Side(a, b, p) == twist(Exact, a, b, p)

\* the point args[1] lies in the closed triangle args[2], args[3], args[4]: it is
\* on no side's outer half-plane, whichever way round the vertices are given
InClosedTriangle ==
    LET d_1 == Side(args[2], args[3], args[1])
        d_2 == Side(args[3], args[4], args[1])
        d_3 == Side(args[4], args[2], args[1])
    IN \/ ge(d_1, Num(0)) /\ ge(d_2, Num(0)) /\ ge(d_3, Num(0))
       \/ le(d_1, Num(0)) /\ le(d_2, Num(0)) /\ le(d_3, Num(0))

\* the vertices of the triangle are not on one line
ProperTriangle == twist(Exact, args[2], args[3], args[4]) # Num(0)

\* C15: at a rational type point_in_triangle(point, p1, p2, p3) returns true if
\* and only if p1, p2, p3 are not collinear and the point lies in the closed
\* triangle; a degenerate triangle gives false, never a division.
C15_PointInTriangleIsClosedMembership ==
    (call = "point_in_triangle" /\ T.kind = "ratio") =>
        ret = Bool(ProperTriangle /\ InClosedTriangle)

\* a point on an edge, not a vertex, reported inside
C15_Witness ==
    /\ call = "point_in_triangle"
    /\ T.kind = "ratio"
    /\ ProperTriangle
    /\ args[1] \notin {args[2], args[3], args[4]}
    /\ Side(args[3], args[4], args[1]) = Num(0)
    /\ ret = Bool(TRUE)

\* the edge vectors p2 - p1 and p3 - p2 of the call, computed at the type Ty
FirstEdge(Ty) == <<sub(Ty, args[2][1], args[1][1]), sub(Ty, args[2][2], args[1][2])>>

SecondEdge(Ty) == <<sub(Ty, args[3][1], args[2][1]), sub(Ty, args[3][2], args[2][2])>>

\* turn computes without any overflow: the build with overflow checks returns
TurnFits == ~Panicked(turn(Checked(Impl(T)), args[1], args[2], args[3])[1])

\* C16 as claimed: for p1 != p2 and p2 != p3, turn(p1,p2,p3) returns the pair
\* (spread(p2-p1, p3-p2), cross(p2-p1, p3-p2) >= 0): the boolean is true
\* exactly when cross >= 0 (cross == 0 is reported as true) and false exactly
\* when cross < 0.
C16_TurnIsSpreadAndCrossSign ==
    (/\ call = "turn"
     /\ args[1] # args[2]
     /\ args[2] # args[3]) =>
        LET s == spread(Impl(T), FirstEdge(Impl(T)), SecondEdge(Impl(T)))
            c == cross(Impl(T), FirstEdge(Impl(T)), SecondEdge(Impl(T)))
        IN /\ ret = IF Panicked(s) \/ Panicked(c) THEN <<PANIC, PANIC>>
                    ELSE <<s, Bool(ge(c, zero(T)))>>
           /\ ~Panicked(ret[1]) =>
                 /\ (ret[2] = Bool(TRUE)) <=> ge(c, zero(T))
                 /\ eq(c, zero(T)) => ret[2] = Bool(TRUE)
                 /\ (ret[2] = Bool(FALSE)) <=> lt(c, zero(T))

\* C16 amended: for p1 != p2 and p2 != p3, turn(p1,p2,p3) returns the pair
\* (spread(p2-p1, p3-p2), cross(p2-p1, p3-p2) >= 0): the boolean is true
\* exactly when cross >= 0 (cross == 0 is reported as true) and false exactly
\* when cross < 0 or, at f64, cross is NaN after an overflow.  Computed without
\* overflow at an integer or rational type (always, at a rational type) the
\* boolean is true exactly when the exact cross product is positive or zero.
C16_TurnIsSpreadAndCrossSignOrNaN ==
    (/\ call = "turn"
     /\ args[1] # args[2]
     /\ args[2] # args[3]) =>
        LET s == spread(Impl(T), FirstEdge(Impl(T)), SecondEdge(Impl(T)))
            c == cross(Impl(T), FirstEdge(Impl(T)), SecondEdge(Impl(T)))
        IN /\ ret = IF Panicked(s) \/ Panicked(c) THEN <<PANIC, PANIC>>
                    ELSE <<s, Bool(ge(c, zero(T)))>>
           /\ ~Panicked(ret[1]) =>
                 /\ (ret[2] = Bool(TRUE)) <=> ge(c, zero(T))
                 /\ eq(c, zero(T)) => ret[2] = Bool(TRUE)
                 /\ (ret[2] = Bool(FALSE)) <=> (lt(c, zero(T)) \/ c = NAN)
                 /\ c = NAN =>
                       /\ T.kind = "float"
                       /\ \/ ~Finite(mul(Impl(T), FirstEdge(Impl(T))[1], SecondEdge(Impl(T))[2]))
                          \/ ~Finite(mul(Impl(T), FirstEdge(Impl(T))[2], SecondEdge(Impl(T))[1]))
           /\ T.kind = "ratio" => TurnFits
           /\ (T.kind # "float" /\ TurnFits) =>
                 /\ ~Panicked(ret[1])
                 /\ ret[1] = spread(Impl(T), FirstEdge(Exact), SecondEdge(Exact))
                 /\ ret[2] = Bool(ge(cross(Exact, FirstEdge(Exact), SecondEdge(Exact)),
                                     Num(0)))

\* going straight on, (0,0), (1,1), (2,2), is reported with the boolean true
C16_Witness ==
    /\ call = "turn"
    /\ args = OnOneLine
    /\ ret = <<Num(0), Bool(TRUE)>>

\* a / b as the type T divides: exactly at Ratio, truncating at the integers
Quotient(a, b) ==
    IF T.kind = "ratio" THEN div(Exact, a, b) ELSE ZQuot(a, b)

\* the call computes without any overflow: the build with overflow checks returns
DilatationFits == ~Panicked(dilatation(Checked(Impl(T)), args[1], args[2]))

CosineLawFits == ~Panicked(cosine_law(Checked(Impl(T)), args[1], args[2], args[3]))

\* C17: dilatation(v1, v2) returns 0 whenever v1 is the zero vector, for every
\* v2, and cosine_law(q1, q2, q3) returns 0 whenever q2 == 0 or q3 == 0, for
\* every q1; otherwise (and computed without overflow) dilatation returns
\* quadrance(v2,0)/quadrance(v1,0) and cosine_law 1 - (q2+q3-q1)^2/(4*q2*q3),
\* at f64 with the operations of f64.
C17_ZeroGuardedFormulas ==
    /\ call = "dilatation" =>
          /\ args[1] = Origin(T) => eq(ret, zero(T))
          /\ (args[1] # Origin(T) /\ T.kind # "float" /\ DilatationFits) =>
                ret = Quotient(quadrance(Exact, args[2], ZeroVec),
                               quadrance(Exact, args[1], ZeroVec))
          /\ (args[1] # Origin(T) /\ T.kind = "float") =>
                ret = div(Impl(T), quadrance(Impl(T), args[2], Origin(T)),
                                   quadrance(Impl(T), args[1], Origin(T)))
    /\ call = "cosine_law" =>
          /\ (eq(args[2], zero(T)) \/ eq(args[3], zero(T))) => eq(ret, zero(T))
          /\ (/\ T.kind # "float"
              /\ args[2] # Num(0) /\ args[3] # Num(0) /\ CosineLawFits) =>
                LET t == sub(Exact, add(Exact, args[2], args[3]), args[1])
                IN ret = sub(Exact, Num(1),
                             Quotient(mul(Exact, t, t),
                                      mul(Exact, Num(4), mul(Exact, args[2], args[3]))))
          /\ (/\ T.kind = "float"
              /\ ~eq(args[2], zero(T)) /\ ~eq(args[3], zero(T))) =>
                LET t == sub(Impl(T), add(Impl(T), args[2], args[3]), args[1])
                IN ret = sub(Impl(T), one(T),
                             div(Impl(T), mul(Impl(T), t, t),
                                 mul(Impl(T), mul(Impl(T), Flt(4, 0), args[2]), args[3])))

\* C18: at a rational type and for every non-degenerate triangle, with
\* (q1,q2,q3) = quadrance_from_three_points(p1,p2,p3): cosine_law(q1,q2,q3) equals
\* the first component of spread_from_three_points(p1,p2,p3) and equals
\* spread(p2-p1, p3-p1).
C18_CosineLawIsSpreadAtP1 ==
    (/\ call = "spread_from_three_points"
     /\ T.kind = "ratio"
     /\ NonDegenerate) =>
        LET q == quadrance_from_three_points(Impl(T), args[1], args[2], args[3])
            v_2 == <<sub(Impl(T), args[2][1], args[1][1]), sub(Impl(T), args[2][2], args[1][2])>>
            v_3 == <<sub(Impl(T), args[3][1], args[1][1]), sub(Impl(T), args[3][2], args[1][2])>>
        IN /\ ~Panicked(ret[1])
           /\ cosine_law(Impl(T), q[1], q[2], q[3]) = ret[1]
           /\ spread(Impl(T), v_2, v_3) = ret[1]

\* a triangle whose angle at p1 is neither right nor flat and whose sides at p1
\* differ
C18_Witness ==
    /\ call = "spread_from_three_points"
    /\ T.kind = "ratio"
    /\ NonDegenerate
    /\ ret[1] \notin {Num(0), Num(1)}
    /\ quadrance(Impl(T), args[1], args[3]) # quadrance(Impl(T), args[1], args[2])
    /\ cosine_law(Impl(T), quadrance(Impl(T), args[2], args[3]),
                  quadrance(Impl(T), args[1], args[3]),
                  quadrance(Impl(T), args[1], args[2])) = ret[1]

\* the call computes without any overflow: the build with overflow checks returns
SpreadFits == ~Panicked(spread(Checked(Impl(T)), args[1], args[2]))

ThreeSpreadsFit ==
    ~Panicked(spread_from_three_points(Checked(Impl(T)), args[1], args[2], args[3])[1])

\* C20 as claimed: for non-zero vectors with integer or rational coordinates the
\* spread that is returned satisfies 0 <= s <= 1, that is is_valid_spread(s); so
\* do the spread that turn returns (p1 != p2, p2 != p3) and each component of
\* spread_from_three_points on three distinct vertices.
C20_SpreadIsValid ==
    /\ (call = "spread" /\ T.kind # "float" /\ args[1] # ZeroVec /\ args[2] # ZeroVec
        /\ ~Panicked(ret)) =>
          is_valid_spread(Impl(T), ret) = Bool(TRUE)
    /\ (call = "turn" /\ T.kind # "float" /\ args[1] # args[2] /\ args[2] # args[3]
        /\ ~Panicked(ret[1])) =>
          is_valid_spread(Impl(T), ret[1]) = Bool(TRUE)
    /\ (/\ call = "spread_from_three_points"
        /\ T.kind # "float"
        /\ args[1] # args[2] /\ args[2] # args[3] /\ args[1] # args[3]
        /\ ~Panicked(ret[1])) =>
          /\ is_valid_spread(Impl(T), ret[1]) = Bool(TRUE)
          /\ is_valid_spread(Impl(T), ret[2]) = Bool(TRUE)
          /\ is_valid_spread(Impl(T), ret[3]) = Bool(TRUE)

\* C20 amended: the spread of non-zero vectors satisfies 0 <= s <= 1 when it is
\* computed without overflow, which is always the case at a rational type; so do
\* the spread that turn returns and each component of spread_from_three_points
\* on three distinct vertices.
C20_SpreadIsValidWithoutOverflow ==
    /\ (call = "spread" /\ T.kind # "float" /\ args[1] # ZeroVec /\ args[2] # ZeroVec) =>
          /\ T.kind = "ratio" => SpreadFits
          /\ SpreadFits =>
                ~Panicked(ret) /\ is_valid_spread(Impl(T), ret) = Bool(TRUE)
    /\ (call = "turn" /\ T.kind # "float" /\ args[1] # args[2] /\ args[2] # args[3]) =>
          /\ T.kind = "ratio" => TurnFits
          /\ TurnFits =>
                ~Panicked(ret[1]) /\ is_valid_spread(Impl(T), ret[1]) = Bool(TRUE)
    /\ (/\ call = "spread_from_three_points"
        /\ T.kind # "float"
        /\ args[1] # args[2] /\ args[2] # args[3] /\ args[1] # args[3]) =>
          /\ T.kind = "ratio" => ThreeSpreadsFit
          /\ ThreeSpreadsFit =>
                /\ ~Panicked(ret[1])
                /\ is_valid_spread(Impl(T), ret[1]) = Bool(TRUE)
                /\ is_valid_spread(Impl(T), ret[2]) = Bool(TRUE)
                /\ is_valid_spread(Impl(T), ret[3]) = Bool(TRUE)

\* perpendicular non-zero integer vectors: the spread is exactly 1, and valid
C20_Witness ==
    /\ call = "spread"
    /\ T.kind = "int"
    /\ args[1] # ZeroVec
    /\ args[2] # ZeroVec
    /\ SpreadFits
    /\ ret = Num(1)
    /\ is_valid_spread(Impl(T), ret) = Bool(TRUE)

\* sqrt(a) < sqrt(b) + sqrt(c) for non-negative a, b, c, without square roots:
\* a < b + c, or (a - b - c)^2 < 4*b*c
SideLess(a, b, c) ==
    LET d == sub(Exact, sub(Exact, a, b), c)
    IN \/ ~ge(d, Num(0))
       \/ ~ge(mul(Exact, d, d), mul(Exact, Num(4), mul(Exact, b, c)))

\* the sides exist (no quadrance is negative) and each is less than the sum of
\* the other two
SidesFormTriangle ==
    /\ ge(args[1], Num(0)) /\ ge(args[2], Num(0)) /\ ge(args[3], Num(0))
    /\ SideLess(args[1], args[2], args[3])
    /\ SideLess(args[2], args[3], args[1])
    /\ SideLess(args[3], args[1], args[2])

\* C21: satisfies_triangle_inequality(q1, q2, q3) returns true if and only if
\* each side (the square root of its quadrance) is less than the sum of the
\* other two sides.
C21_TriangleInequalityOfSides ==
    (call = "satisfies_triangle_inequality" /\ T.kind # "float") =>
        ret = Bool(SidesFormTriangle)

\* the quadrance of the side opposite the vertex i of the call, as an exact number
OppositeQuadrance(i) ==
    quadrance(Exact, args[(i % 3) + 1], args[((i + 1) % 3) + 1])

\* one quadrance of the triangle of the call equals the sum of the other two
HasRightAngle ==
    \E i \in 1..3 :
        OppositeQuadrance(i) =
            add(Exact, OppositeQuadrance((i % 3) + 1),
                       OppositeQuadrance(((i + 1) % 3) + 1))

\* C22: for any three integer points forming a non-degenerate triangle,
\* is_right_triangle applied to spread_from_three_points(p1, p2, p3) computed at
\* the integer type is true if and only if the triangle has a right angle (one
\* of its quadrances equals the sum of the other two).
C22_RightTriangleClassificationExact ==
    (/\ call = "spread_from_three_points"
     /\ T.kind = "int"
     /\ ~ExactlyCollinear
     /\ ThreeSpreadsFit) =>
        is_right_triangle(Impl(T), ret[1], ret[2], ret[3]) = Bool(HasRightAngle)

\* one half, as an exact number and as an f64
Half == IF T.kind = "float" THEN Flt(1, -1) ELSE Ratio(1, 2)

\* C23: is_obtuse_triangle(s1, s2, s3) is true if and only if at least one of
\* the three spreads is strictly greater than one half, and is_acute_triangle is
\* true if and only if all three spreads are strictly less than 1; so a triple
\* containing a spread equal to 1 is reported obtuse and not acute, and a triple
\* with all spreads in (1/2, 1) is reported both acute and obtuse.
C23_AcuteAndObtuseThresholds ==
    /\ call = "is_obtuse_triangle" =>
          /\ ret = Bool(\E i \in 1..3 : gt(args[i], Half))
          /\ (\E i \in 1..3 : eq(args[i], one(T))) => ret = Bool(TRUE)
          /\ (\A i \in 1..3 : gt(args[i], Half) /\ lt(args[i], one(T))) =>
                ret = Bool(TRUE)
    /\ call = "is_acute_triangle" =>
          /\ ret = Bool(\A i \in 1..3 : lt(args[i], one(T)))
          /\ (\E i \in 1..3 : eq(args[i], one(T))) => ret = Bool(FALSE)
          /\ (\A i \in 1..3 : gt(args[i], Half) /\ lt(args[i], one(T))) =>
                ret = Bool(TRUE)

\* three spreads of 3/4: the triple is reported obtuse, and it lies below 1
C23_Witness ==
    /\ call = "is_obtuse_triangle"
    /\ args = <<Ratio(3, 4), Ratio(3, 4), Ratio(3, 4)>>
    /\ is_acute_triangle(Impl(T), args[1], args[2], args[3]) = Bool(TRUE)
    /\ ret = Bool(TRUE)

\* the unsigned specialization of archimedes that was called, applied to other
\* arguments
SpecializedArchimedes(a, b, c) ==
    CASE call = "archimedes_u32" -> archimedes_u32(T.checks, a, b, c)
      [] call = "archimedes_u64" -> archimedes_u64(T.checks, a, b, c)
      [] call = "archimedes_u128" -> archimedes_u128(T.checks, a, b, c)

\* the quadrea 4*q1*q2 - (q1 + q2 - q3)^2 of the call, over the integers
ExactQuadrea ==
    LET t == ZSub(ZAdd(args[1], args[2]), args[3])
    IN ZSub(ZMul(Num(4), ZMul(args[1], args[2])), ZMul(t, t))

\* C24: for X in {u32, u64, u128} and unsigned q1, q2, q3 whose quadrea
\* 4*q1*q2 - (q1+q2-q3)^2 is non-negative and representable in X,
\* archimedes_X(q1, q2, q3) returns that value with no arithmetic underflow in
\* any intermediate step (so in every build), and the result is the same for
\* every permutation of the three arguments.
C24_UnsignedArchimedesCorrect ==
    (/\ call \in Named("archimedes", UnsignedNames)
     /\ ge(ExactQuadrea, Num(0))
     /\ InRange(T, ExactQuadrea)) =>
        /\ ret = ExactQuadrea
        /\ SpecializedArchimedes(args[1], args[3], args[2]) = ret
        /\ SpecializedArchimedes(args[2], args[1], args[3]) = ret
        /\ SpecializedArchimedes(args[2], args[3], args[1]) = ret
        /\ SpecializedArchimedes(args[3], args[1], args[2]) = ret
        /\ SpecializedArchimedes(args[3], args[2], args[1]) = ret

\* (p1.x - p2.x)^2 + (p1.y - p2.y)^2 of the call, over the integers
ExactQuadrance ==
    LET dx == ZSub(args[1][1], args[2][1])
        dy == ZSub(args[1][2], args[2][2])
    IN ZAdd(ZMul(dx, dx), ZMul(dy, dy))

\* the signed type the unsigned call is compared with: the next wider one, or
\* the widest
SignedCounterpart ==
    CASE call = "quadrance_u32" -> I64(T.checks)
      [] call = "quadrance_u64" -> I128(T.checks)
      [] call = "quadrance_u128" -> I128(T.checks)

\* the value the signed specialization returns for the coordinates of the call
SignedQuadrance ==
    CASE call = "quadrance_u32" -> quadrance_i64(T.checks, args[1], args[2])
      [] call = "quadrance_u64" -> quadrance_i128(T.checks, args[1], args[2])
      [] call = "quadrance_u128" -> quadrance_i128(T.checks, args[1], args[2])

\* the coordinates of the call are values of the signed type too
CoordinatesFitSigned ==
    \A i \in 1..2 : \A j \in 1..2 : InRange(SignedCounterpart, args[i][j])

\* C25: for unsigned specializations and in-range points (the quadrance
\* (p1.x-p2.x)^2 + (p1.y-p2.y)^2 is a value of uN), quadrance_uN(p1, p2) returns
\* that value in every build, whichever point has the larger coordinate on each
\* axis, and it is the value quadrance_iM returns for the same coordinates.
C25_UnsignedQuadranceIsExact ==
    (call \in Named("quadrance", UnsignedNames) /\ InRange(T, ExactQuadrance)) =>
        /\ ret = ExactQuadrance
        /\ SpecializedQuadrance(args[2], args[1]) = ret
        /\ (CoordinatesFitSigned /\ InRange(SignedCounterpart, ExactQuadrance)) =>
                SignedQuadrance = ret

\* p1 is larger on one axis and smaller on the other; the signed call agrees
C25_Witness ==
    /\ call = "quadrance_u32"
    /\ T.checks
    /\ gt(args[1][1], args[2][1])
    /\ lt(args[1][2], args[2][2])
    /\ InRange(T, ExactQuadrance)
    /\ CoordinatesFitSigned
    /\ SignedQuadrance = ret
    /\ ret = Num(5)

\* the dot product of the two vectors of the call, as an exact number
ExactDot ==
    add(Exact, mul(Exact, args[1][1], args[2][1]), mul(Exact, args[1][2], args[2][2]))

\* the exact value of an f64 that is a small multiple of a power of two
ExactOf(x) ==
    LET n == IF x.neg THEN -x.m.n ELSE x.m.n
    IN IF x.e >= 0 THEN Ratio(n * (2 ^ x.e), 1) ELSE Ratio(n, 2 ^ (-x.e))

\* the f64 is one of the small values drawn, not an extreme
Moderate(x) == Finite(x) /\ ~IsBig(x.m) /\ x.e \in -4..4

\* C26: for every integer and unsigned specialization spread_X and in-range
\* vectors (q1*q2 is a value of X): if q1*q2 == 0 (either vector is zero)
\* spread_X returns 0 without dividing, otherwise it returns
\* q1*q2 - floor(dot^2 / (q1*q2)); spread_f64 likewise (q1*q2 is finite) returns
\* 0.0 for a zero vector and 1 - dot^2/(q1*q2) otherwise, in the operations of
\* f64, which is the exact spread where that is a binary fraction.  For (1,1),
\* (1,0) the integer result is 2.
C26_SpecializedSpread ==
    /\ (call \in SpreadCalls /\ ProductFits) =>
          /\ (ZMul(Q1, Q2) = Num(0)) = (args[1] = ZeroVec \/ args[2] = ZeroVec)
          /\ ret = IF ZMul(Q1, Q2) = Num(0) THEN Num(0)
                   ELSE ZSub(ZMul(Q1, Q2), ZQuot(ZMul(Dot, Dot), ZMul(Q1, Q2)))
          /\ args = << <<Num(1), Num(1)>>, <<Num(1), Num(0)>> >> => ret = Num(2)
    /\ call = "spread_f64" =>
          LET F == Impl(F64)
              q_1 == quadrance(F, args[1], Origin(F64))
              q_2 == quadrance(F, args[2], Origin(F64))
              dot == add(F, mul(F, args[1][1], args[2][1]), mul(F, args[1][2], args[2][2]))
              exact == spread(Exact, <<ExactOf(args[1][1]), ExactOf(args[1][2])>>,
                                     <<ExactOf(args[2][1]), ExactOf(args[2][2])>>)
          IN /\ Finite(mul(F, q_1, q_2)) =>
                   IF args[1] = Origin(F64) \/ args[2] = Origin(F64)
                   THEN ret = Flt(0, 0)
                   ELSE ret = sub(F, Flt(1, 0), div(F, mul(F, dot, dot), mul(F, q_1, q_2)))
             /\ (/\ \A i \in 1..2 : \A j \in 1..2 : Moderate(args[i][j])
                 /\ args[1] # Origin(F64) /\ args[2] # Origin(F64)
                 /\ \E k \in 0..20 : exact.d = 2 ^ k) =>
                   ExactOf(ret) = exact

\* a zero vector at an integer specialization: 0 is returned, nothing divided
C26_Witness ==
    /\ call = "spread_i64"
    /\ args[1] = ZeroVec
    /\ args[2] = <<Num(1), Num(1)>>
    /\ ret = Num(0)

\* the normal (a, b) of the line i of the call
Normal(i) == <<args[i][1], args[i][2]>>

\* C27: over exact (rational) arithmetic, for all lines l1 = (a1, b1, c1) and
\* l2 = (a2, b2, c2) with non-zero normals, spread_from_line(l1, l2) equals
\* spread((a1, b1), (a2, b2)), that is cross^2/(q1*q2) == 1 - dot^2/(q1*q2), and
\* the result does not depend on c1 or c2.
C27_SpreadFromLineIsSpreadOfNormals ==
    (/\ call = "spread_from_line"
     /\ T.kind = "ratio"
     /\ Normal(1) # ZeroVec
     /\ Normal(2) # ZeroVec) =>
        /\ ~Panicked(ret)
        /\ ret = spread(Impl(T), Normal(1), Normal(2))
        /\ \A c_1 \in Small(T) : \A c_2 \in Small(T) :
              spread_from_line(Impl(T), <<args[1][1], args[1][2], c_1>>,
                                  <<args[2][1], args[2][2], c_2>>) = ret

\* two lines at half a right angle, with different constant terms
C27_Witness ==
    /\ call = "spread_from_line"
    /\ T.kind = "ratio"
    /\ Normal(1) # ZeroVec
    /\ Normal(2) # ZeroVec
    /\ args[1][3] # args[2][3]
    /\ ret = Ratio(1, 2)

\* C28: over exact (rational) arithmetic, for all lines with non-zero normals,
\* are_lines_parallel(l1, l2) is true iff spread_from_line(l1, l2) == 0 and
\* are_lines_perpendicular(l1, l2) is true iff spread_from_line(l1, l2) == 1; no
\* pair of such lines is both parallel and perpendicular.
C28_LinePredicatesAgreeWithSpread ==
    (/\ call \in {"are_lines_parallel", "are_lines_perpendicular"}
     /\ T.kind = "ratio"
     /\ Normal(1) # ZeroVec
     /\ Normal(2) # ZeroVec) =>
        /\ call = "are_lines_parallel" =>
              ret = Bool(spread_from_line(Impl(T), args[1], args[2]) = Num(0))
        /\ call = "are_lines_perpendicular" =>
              ret = Bool(spread_from_line(Impl(T), args[1], args[2]) = Num(1))
        /\ ~(/\ are_lines_parallel(Impl(T), args[1], args[2]) = Bool(TRUE)
              /\ are_lines_perpendicular(Impl(T), args[1], args[2]) = Bool(TRUE))

\* two perpendicular lines through different points: spread 1, not parallel
C28_Witness ==
    /\ call = "are_lines_perpendicular"
    /\ T.kind = "ratio"
    /\ Normal(1) # ZeroVec
    /\ Normal(2) # ZeroVec
    /\ args[1][3] # args[2][3]
    /\ spread_from_line(Impl(T), args[1], args[2]) = Num(1)
    /\ ret = Bool(TRUE)

\* turn on the points of the call with p1 and p3 swapped
SwappedTurn(Ty) == turn(Ty, args[3], args[2], args[1])

\* the calls of turn that the claim is about
TurnOnDistinctNeighbours ==
    /\ call = "turn"
    /\ T.kind \in {"int", "ratio"}
    /\ args[1] # args[2]
    /\ args[2] # args[3]

\* C29 as claimed: for all signed-integer or rational points with p1 != p2 and
\* p2 != p3 the boolean returned by turn equals (twist(p1, p2, p3) >= 0), and
\* swapping p1 and p3 of a non-collinear triple flips the boolean (for the calls
\* that return).
C29_TurnAgreesWithTwistAndFlips ==
    (TurnOnDistinctNeighbours /\ ~Panicked(ret[1])) =>
        /\ ~Panicked(twist(Impl(T), args[1], args[2], args[3])) =>
              ret[2] = Bool(ge(twist(Impl(T), args[1], args[2], args[3]), zero(T)))
        /\ (~ExactlyCollinear /\ ~Panicked(SwappedTurn(Impl(T))[1])) =>
              SwappedTurn(Impl(T))[2] # ret[2]

\* C29 amended: the boolean of turn equals (twist >= 0) whenever both calls
\* return, because cross(p2-p1, p3-p2) == cross(p2-p1, p3-p1); swapping p1 and p3
\* of a non-collinear triple flips the boolean when both calls of turn compute
\* without overflow, which is always the case at a rational type.
C29_TurnAgreesWithTwist ==
    TurnOnDistinctNeighbours =>
        /\ T.kind = "ratio" => TurnFits /\ ~Panicked(SwappedTurn(Checked(Impl(T)))[1])
        /\ (~Panicked(ret[1]) /\ ~Panicked(twist(Impl(T), args[1], args[2], args[3]))) =>
              /\ cross(Impl(T), FirstEdge(Impl(T)), SecondEdge(Impl(T)))
                    = twist(Impl(T), args[1], args[2], args[3])
              /\ ret[2] = Bool(ge(twist(Impl(T), args[1], args[2], args[3]), zero(T)))
        /\ (/\ ~ExactlyCollinear
            /\ TurnFits
            /\ ~Panicked(SwappedTurn(Checked(Impl(T)))[1])) =>
              /\ ~Panicked(ret[1])
              /\ ~Panicked(SwappedTurn(Impl(T))[1])
              /\ SwappedTurn(Impl(T))[2] # ret[2]

\* a clockwise triple of integer points: turn says false, twist is negative, and
\* the swapped triple turns the other way
C29_Witness ==
    /\ TurnOnDistinctNeighbours
    /\ T.kind = "int"
    /\ ~ExactlyCollinear
    /\ TurnFits
    /\ ret[2] = Bool(FALSE)
    /\ ~ge(twist(Impl(T), args[1], args[2], args[3]), zero(T))
    /\ SwappedTurn(Impl(T))[2] = Bool(TRUE)

\* C30: instantiated at a signed integer type (whose division truncates),
\* point_in_triangle returns, for every non-degenerate triangle with integer
\* vertices and every integer point, true for points inside or on the boundary
\* and false for every point strictly outside the triangle.
C30_PointInTriangleExactAtIntegers ==
    (/\ call = "point_in_triangle"
     /\ T.kind = "int"
     /\ ProperTriangle
     /\ ret # PANIC) =>
        ret = Bool(InClosedTriangle)
====
